---- MODULE Spec2Model ----
(***************************************************************************)
(* ruscal: the bytecode compiler (AST -> stack bytecode with a shadow      *)
(* stack) and the virtual machine (call frames, Call/Ret/Yield) of         *)
(* src/src/compiler.rs, driven by the host loop run_coro of main().        *)
(*                                                                         *)
(* Numbers: an f64 is modelled as an exact rational n/d (d > 0); d = 0     *)
(* encodes the non-finite values (n = 1: +inf, n = -1: -inf, n = 0: NaN).  *)
(* Rounding and the sign of zero are not modelled.                         *)
(* Instruction pointers and stack indices are 0-based as in the source;    *)
(* TLA+ sequences are 1-based, so the instruction at ip is code[ip + 1].   *)
(***************************************************************************)
EXTENDS Integers, Sequences, FiniteSets, TLC

\* ------------------------------------------------------------------------
\* Bounds of the model
\* ------------------------------------------------------------------------
\* for-loops of the checked programs run `for V in s to e` with
\* s in 0..MaxStart and e in 0..MaxEnd
MaxStart == 1
MaxEnd == 2

\* ------------------------------------------------------------------------
\* Program constants
\* ------------------------------------------------------------------------
\* Instruction.arg0 is a u8: `x as u8` keeps x modulo 256
U8Mod == 256
\* Option::None of compile_stmts' last_result
None == -1

U8(x) == x % U8Mod

Min(S) == CHOOSE x \in S : \A y \in S : x <= y

\* F applied to the value of v, which is computed once
Let(v, F(_)) == CHOOSE r \in {F(x) : x \in {v}} : TRUE

\* Vec::resize(n, fill)
Resize(seq, n, fill) ==
    IF n <= Len(seq) THEN SubSeq(seq, 1, n)
    ELSE seq \o [i \in 1..(n - Len(seq)) |-> fill]

\* Vec::pop (no effect on an empty vector)
PopVec(seq) == IF seq = <<>> THEN seq ELSE SubSeq(seq, 1, Len(seq) - 1)

\* ------------------------------------------------------------------------
\* Value (value.rs is not part of the sources; the variants are those used
\* by compiler.rs: Value::F64, Value::I64, Value::Str)
\* ------------------------------------------------------------------------
F64(n) == [k |-> "F64", n |-> n, d |-> 1, s |-> ""]
I64(n) == [k |-> "I64", n |-> n, d |-> 1, s |-> ""]
StrV(s) == [k |-> "Str", n |-> 0, d |-> 1, s |-> s]
\* no value
NoVal == [k |-> "None", n |-> 0, d |-> 1, s |-> ""]

Abs(x) == IF x < 0 THEN -x ELSE x

RECURSIVE Gcd(_, _)
Gcd(a, b) == IF b = 0 THEN a ELSE Gcd(b, a % b)

\* the f64 n/d in lowest terms (d = 0: non-finite, the sign is kept in n)
Rat(n, d) ==
    IF d = 0 THEN [k |-> "F64", n |-> (IF n > 0 THEN 1 ELSE IF n < 0 THEN -1 ELSE 0),
                   d |-> 0, s |-> ""]
    ELSE LET g == Gcd(Abs(n), Abs(d))
             sg == IF d < 0 THEN -1 ELSE 1
         IN [k |-> "F64", n |-> (sg * n) \div g, d |-> (sg * d) \div g, s |-> ""]

\* ------------------------------------------------------------------------
\* AST (parser.rs is not part of the sources; the constructors are the
\* variants matched by compile_expr and compile_stmts)
\* ------------------------------------------------------------------------
NumLiteral(v) == [t |-> "NumLiteral", v |-> v]
StrLiteral(s) == [t |-> "StrLiteral", s |-> s]
Ident(name) == [t |-> "Ident", name |-> name]
AddE(l, r) == [t |-> "Add", lhs |-> l, rhs |-> r]
SubE(l, r) == [t |-> "Sub", lhs |-> l, rhs |-> r]
MulE(l, r) == [t |-> "Mul", lhs |-> l, rhs |-> r]
DivE(l, r) == [t |-> "Div", lhs |-> l, rhs |-> r]
GtE(l, r) == [t |-> "Gt", lhs |-> l, rhs |-> r]
LtE(l, r) == [t |-> "Lt", lhs |-> l, rhs |-> r]
FnInvoke(name, args) == [t |-> "FnInvoke", name |-> name, args |-> args]
IfE(cond, tb) == [t |-> "If", cond |-> cond, true_branch |-> tb,
                  has_else |-> FALSE, false_branch |-> <<>>]
IfElseE(cond, tb, fb) == [t |-> "If", cond |-> cond, true_branch |-> tb,
                          has_else |-> TRUE, false_branch |-> fb]

ExprS(ex) == [t |-> "Expression", ex |-> ex]
VarDef(name, ex) == [t |-> "VarDef", name |-> name, ex |-> ex]
VarAssign(name, ex) == [t |-> "VarAssign", name |-> name, ex |-> ex]
For(v, start, end, stmts) ==
    [t |-> "For", loop_var |-> v, start |-> start, end |-> end, stmts |-> stmts]
Break == [t |-> "Break"]
Continue == [t |-> "Continue"]
FnDefS(name, args, stmts) == [t |-> "FnDef", name |-> name, args |-> args, stmts |-> stmts]
Return(ex) == [t |-> "Return", ex |-> ex]
YieldS(ex) == [t |-> "Yield", ex |-> ex]

\* ------------------------------------------------------------------------
\* Compiler
\* ------------------------------------------------------------------------
\* Target
Temp == [t |-> "Temp", i |-> 0, name |-> ""]
Literal(i) == [t |-> "Literal", i |-> i, name |-> ""]
Local(name) == [t |-> "Local", i |-> 0, name |-> name]

\* LoopFrame::new
LoopFrame(start) == [start |-> start, break_ips |-> <<>>, continue_ips |-> <<>>]

(***************************************************************************)
(* Compiler::new.  Besides the fields of the struct the record carries:    *)
(*   err     "ok", "compile_error" (an Err returned through `?`) or        *)
(*           "panic" (the compiler aborted);                               *)
(*   checks  whether the build checks integer overflow (a debug build      *)
(*           panics on `a - b` with a < b, a release build wraps);         *)
(*   loops   a record of every for-loop compiled into the current          *)
(*           function: its exit-check address, continue landing pad, exit  *)
(*           address and the stack index of its loop variable;             *)
(*   exprs   a record of every expression compiled into the current        *)
(*           function: its form (t) and syntax tree (ex), the addresses    *)
(*           of the first instruction emitted for it (from) and of the     *)
(*           instruction after the last one (to), the index compile_expr   *)
(*           returned (r) and target_stack when the lowering began         *)
(*           (locals) and when it ended (after);                           *)
(*   assigns a record of every `NAME = expr;` compiled into the current    *)
(*           function: the name, the expression (ex), the addresses of     *)
(*           its first instruction (from) and of the one after its Store   *)
(*           (to), the slot stored into (slot) and target_stack when the   *)
(*           statement began (locals).                                     *)
(* Every instruction carries, besides op and arg0, the length of           *)
(* target_stack right after it was emitted (post), a tag naming the        *)
(* statement that emitted it ("break", "continue", "continue_jmp") and,    *)
(* for a LoadLiteral, the value it was emitted to load (lit).              *)
(***************************************************************************)
Compiler_new(checks) ==
    [literals |-> <<>>, instructions |-> <<>>, target_stack |-> <<>>,
     funcs |-> <<>>, loop_stack |-> <<>>, loops |-> <<>>, exprs |-> <<>>,
     assigns |-> <<>>, err |-> "ok", checks |-> checks]

IsOk(c) == c.err = "ok"
Panicked(c) == [c EXCEPT !.err = "panic"]
Failed(c) == [c EXCEPT !.err = "compile_error"]

\* the length of target_stack after the instruction emitted last
SetPost(c) ==
    IF ~IsOk(c) \/ c.instructions = <<>> THEN c
    ELSE [c EXCEPT !.instructions[Len(c.instructions)].post = Len(c.target_stack)]

SetTag(c, tag) ==
    IF ~IsOk(c) \/ c.instructions = <<>> THEN c
    ELSE [c EXCEPT !.instructions[Len(c.instructions)].tag = tag]

\* the value the LoadLiteral emitted last is to load
SetLit(c, value) ==
    IF ~IsOk(c) \/ c.instructions = <<>> THEN c
    ELSE [c EXCEPT !.instructions[Len(c.instructions)].lit = value]

stack_top(c) == Len(c.target_stack) - 1

\* add_literal that appends without looking for an equal entry
add_literal_without_dedup(c, value) ==
    IF ~IsOk(c) THEN [c |-> c, r |-> 0]
    ELSE [c |-> [c EXCEPT !.literals = Append(@, value)], r |-> U8(Len(c.literals))]

add_literal(c, value) ==
    LET existing == {i \in 1..Len(c.literals) : c.literals[i] = value}
    IN IF ~IsOk(c) THEN [c |-> c, r |-> 0]
       ELSE IF existing # {} THEN [c |-> c, r |-> U8(Min(existing) - 1)]
       ELSE [c |-> [c EXCEPT !.literals = Append(@, value)], r |-> U8(Len(c.literals))]

add_inst(c, op, arg0) ==
    IF ~IsOk(c) THEN c
    ELSE [c EXCEPT !.instructions =
            Append(@, [op |-> op, arg0 |-> arg0, post |-> Len(c.target_stack), tag |-> "",
                       lit |-> NoVal])]

\* target_stack.len() - stack_idx - 1 underflows when the slot is gone
add_copy_inst(c, stack_idx) ==
    IF ~IsOk(c) THEN c
    ELSE IF c.checks /\ Len(c.target_stack) < stack_idx + 1 THEN Panicked(c)
    ELSE LET c1 == add_inst(c, "Copy", U8(Len(c.target_stack) - stack_idx - 1))
         IN SetPost([c1 EXCEPT !.target_stack = Append(@, Temp)])

add_load_literal_inst(c, lit) ==
    IF ~IsOk(c) THEN c
    ELSE LET c1 == add_inst(c, "LoadLiteral", lit)
         IN SetPost([c1 EXCEPT !.target_stack = Append(@, Literal(lit))])

add_binop_inst(c, op) ==
    IF ~IsOk(c) THEN c
    ELSE SetPost(add_inst([c EXCEPT !.target_stack = PopVec(@)], op, 0))

add_store_inst(c, stack_idx) ==
    IF ~IsOk(c) THEN c
    ELSE IF Len(c.target_stack) < stack_idx + 1 THEN Panicked(c)
    ELSE LET c1 == add_inst(c, "Store", U8(Len(c.target_stack) - stack_idx - 1))
         IN SetPost([c1 EXCEPT !.target_stack = PopVec(@)])

add_jf_inst(c) ==
    IF ~IsOk(c) THEN c
    ELSE LET c1 == add_inst(c, "Jf", 0)
         IN SetPost([c1 EXCEPT !.target_stack = PopVec(@)])

\* instructions[ip].arg0 = instructions.len() as u8 (indexing past the end panics)
\* a fixup that patches the jump to one past the address of the next
\* instruction
fixup_jmp_past(c, ip) ==
    IF ~IsOk(c) THEN c
    ELSE IF ip >= Len(c.instructions) THEN Panicked(c)
    ELSE [c EXCEPT !.instructions[ip + 1].arg0 = U8(Len(c.instructions) + 1)]

fixup_jmp(c, ip) ==
    IF ~IsOk(c) THEN c
    ELSE IF ip >= Len(c.instructions) THEN Panicked(c)
    ELSE [c EXCEPT !.instructions[ip + 1].arg0 = U8(Len(c.instructions))]

add_pop_until_inst(c, stack_idx) ==
    IF ~IsOk(c) THEN c
    ELSE IF Len(c.target_stack) <= stack_idx THEN c
    ELSE LET c1 == add_inst(c, "Pop", U8(Len(c.target_stack) - stack_idx - 1))
         IN SetPost([c1 EXCEPT !.target_stack = Resize(@, stack_idx + 1, Temp)])

\* an insert that keeps the entry a key already has
Insert_if_absent(map, key, val) == IF key \in DOMAIN map THEN map ELSE (key :> val) @@ map

\* HashMap::insert
Insert(map, key, val) == (key :> val) @@ map

add_fn(c, name, args) ==
    IF ~IsOk(c) THEN c
    ELSE [c EXCEPT !.funcs = Insert(@, name,
                                [args |-> args, literals |-> c.literals,
                                 instructions |-> c.instructions, loops |-> c.loops,
                                 exprs |-> c.exprs, assigns |-> c.assigns]),
                   !.literals = <<>>,
                   !.instructions = <<>>]

RECURSIVE PatchBreaks(_, _, _)
PatchBreaks(c, ips, i) ==
    IF i > Len(ips) \/ ~IsOk(c) THEN c
    ELSE IF ips[i] >= Len(c.instructions) THEN Panicked(c)
    ELSE PatchBreaks([c EXCEPT !.instructions[ips[i] + 1].arg0 = U8(Len(c.instructions))],
                     ips, i + 1)

fixup_breaks(c) ==
    IF ~IsOk(c) THEN c
    ELSE IF c.loop_stack = <<>> THEN Failed(c)
    ELSE LET loop_frame == c.loop_stack[Len(c.loop_stack)]
             c1 == [c EXCEPT !.loop_stack = PopVec(@)]
         IN PatchBreaks(c1, loop_frame.break_ips, 1)

RECURSIVE PatchContinues(_, _, _)
PatchContinues(c, ips, i) ==
    IF i > Len(ips) \/ ~IsOk(c) THEN c
    ELSE LET ip == ips[i].ip
             stk == ips[i].stk
         IN IF c.checks /\ Len(c.target_stack) < stk THEN Panicked(c)
            ELSE IF ip + 1 >= Len(c.instructions) THEN Panicked(c)
            ELSE PatchContinues(
                    [c EXCEPT !.instructions[ip + 1].arg0 = U8(Len(c.target_stack) - stk),
                              !.instructions[ip + 2].arg0 = U8(Len(c.instructions))],
                    ips, i + 1)

fixup_continues(c) ==
    IF ~IsOk(c) THEN c
    ELSE IF c.loop_stack = <<>> THEN Failed(c)
    ELSE PatchContinues(c, c.loop_stack[Len(c.loop_stack)].continue_ips, 1)

coerce_stack(c, target) ==
    IF ~IsOk(c) THEN c
    ELSE IF c.target_stack = <<>> THEN Panicked(c)
    ELSE IF target < Len(c.target_stack) - 1
         THEN add_pop_until_inst(add_store_inst(c, target), target)
    ELSE IF Len(c.target_stack) - 1 < target
         THEN LET n == target - (Len(c.target_stack) - 1)
                  Copies[k \in 0..n] ==
                      IF k = 0 THEN c ELSE add_copy_inst(Copies[k - 1], stack_top(Copies[k - 1]))
              IN Copies[n]
    ELSE c

\* the first slot of target_stack tagged Local(name), or None
FindLocal(c, name) ==
    LET found == {i \in 1..Len(c.target_stack) :
                     c.target_stack[i].t = "Local" /\ c.target_stack[i].name = name}
    IN IF found = {} THEN None ELSE Min(found) - 1

RECURSIVE compile_expr(_, _), compile_stmts_from(_, _, _, _), compile_args(_, _, _, _)

compile_stmts(c, stmts) == compile_stmts_from(c, stmts, 1, None)

\* compile_stmts_or_zero once compile_stmts has returned res
zero_if_none(res) ==
    IF ~IsOk(res.c) \/ res.r # None THEN res
    ELSE Let(add_literal(res.c, F64(0)), LAMBDA id :
         Let(SetLit(add_load_literal_inst(id.c, id.r), F64(0)), LAMBDA c1 :
             [c |-> c1, r |-> stack_top(c1)]))

compile_stmts_or_zero(c, stmts) == zero_if_none(compile_stmts(c, stmts))

\* the shadow stack after a binary operator: two operands popped, a Temp pushed
PopOperands(c) ==
    IF IsOk(c) THEN SetPost([c EXCEPT !.target_stack = Append(PopVec(PopVec(@)), Temp)])
    ELSE c

\* bin_op that applies the operator to the two newest slots, without copies
bin_op_without_copies(c, op, lhs, rhs) ==
    Let(compile_expr(c, lhs), LAMBDA l :
    Let(compile_expr(l.c, rhs), LAMBDA r :
    Let(PopOperands(add_inst(r.c, op, 0)),
        LAMBDA c4 : [c |-> c4, r |-> stack_top(c4)])))

bin_op(c, op, lhs, rhs) ==
    Let(compile_expr(c, lhs), LAMBDA l :
    Let(compile_expr(l.c, rhs), LAMBDA r :
    Let(PopOperands(add_inst(add_copy_inst(add_copy_inst(r.c, l.r), r.r), op, 0)),
        LAMBDA c4 : [c |-> c4, r |-> stack_top(c4)])))

\* args.iter().map(|arg| self.compile_expr(arg)).collect()
compile_args(c, args, i, acc) ==
    IF i > Len(args) \/ ~IsOk(c) THEN [c |-> c, r |-> acc]
    ELSE Let(compile_expr(c, args[i]), LAMBDA a :
             compile_args(a.c, args, i + 1, Append(acc, a.r)))

RECURSIVE CopyArgs(_, _, _)
CopyArgs(c, idxs, i) ==
    IF i > Len(idxs) THEN c ELSE CopyArgs(add_copy_inst(c, idxs[i]), idxs, i + 1)

\* target_stack.resize(n, Target::Temp)
ResizeTargets(c, n) ==
    IF IsOk(c) THEN [c EXCEPT !.target_stack = Resize(@, n, Temp)] ELSE c

\* self.target_stack[idx] = Target::Local(name)
SetLocal(c, idx, name) ==
    IF IsOk(c) THEN [c EXCEPT !.target_stack[idx + 1] = Local(name)] ELSE c

load_literal(c, value) ==
    Let(add_literal(c, value), LAMBDA id :
    Let(SetLit(add_load_literal_inst(id.c, id.r), value), LAMBDA c1 :
        [c |-> c1, r |-> stack_top(c1)]))

fn_invoke(c, ex) ==
    Let(add_literal(c, StrV(ex.name)), LAMBDA name :
    Let(compile_args(name.c, ex.args, 1, <<>>), LAMBDA args :
    Let(add_inst(CopyArgs(SetLit(add_load_literal_inst(args.c, name.r), StrV(ex.name)),
                          args.r, 1),
                 "Call", U8(Len(args.r))), LAMBDA c3 :
    Let(coerce_stack(SetPost(ResizeTargets(c3, Len(args.c.target_stack) + 1)),
                     Len(c.target_stack)), LAMBDA c5 :
        [c |-> c5, r |-> stack_top(c5)]))))

if_expr(c, ex) ==
    Let(compile_expr(c, ex.cond), LAMBDA cond :
    Let(add_copy_inst(cond.c, cond.r), LAMBDA c1 :
    Let(add_jf_inst(c1), LAMBDA c2 :
    Let(coerce_stack(compile_stmts_or_zero(c2, ex.true_branch).c,
                     Len(c2.target_stack) + 1), LAMBDA c3 :
    Let(ResizeTargets(fixup_jmp(add_inst(c3, "Jmp", 0), Len(c1.instructions)),
                      Len(c2.target_stack)), LAMBDA c6 :
    Let(IF ex.has_else THEN compile_stmts_or_zero(c6, ex.false_branch).c ELSE c6,
        LAMBDA c7 :
    Let(fixup_jmp(coerce_stack(c7, Len(c2.target_stack) + 1), Len(c3.instructions)),
        LAMBDA c9 : [c |-> c9, r |-> stack_top(c9)])))))))

\* what compile_expr did for ex, started on c and ended with res
RecordExpr(c, ex, res) ==
    IF ~IsOk(res.c) THEN res
    ELSE [c |-> [res.c EXCEPT !.exprs =
                    Append(@, [t |-> ex.t, ex |-> ex, from |-> Len(c.instructions),
                               to |-> Len(res.c.instructions), r |-> res.r,
                               locals |-> c.target_stack,
                               after |-> res.c.target_stack])],
          r |-> res.r]

compile_expr(c, ex) ==
    IF ~IsOk(c) THEN [c |-> c, r |-> 0]
    ELSE RecordExpr(c, ex,
         CASE ex.t = "NumLiteral" -> load_literal(c, F64(ex.v))
           [] ex.t = "StrLiteral" -> load_literal(c, StrV(ex.s))
           [] ex.t = "Ident" ->
                Let(FindLocal(c, ex.name), LAMBDA var :
                    IF var # None THEN [c |-> c, r |-> var] ELSE [c |-> Failed(c), r |-> 0])
           [] ex.t = "Add" -> bin_op(c, "Add", ex.lhs, ex.rhs)
           [] ex.t = "Sub" -> bin_op(c, "Sub", ex.lhs, ex.rhs)
           [] ex.t = "Mul" -> bin_op(c, "Mul", ex.lhs, ex.rhs)
           [] ex.t = "Div" -> bin_op(c, "Div", ex.lhs, ex.rhs)
           [] ex.t = "Gt" -> bin_op(c, "Lt", ex.rhs, ex.lhs)
           [] ex.t = "Lt" -> bin_op(c, "Lt", ex.lhs, ex.rhs)
           [] ex.t = "FnInvoke" -> fn_invoke(c, ex)
           [] ex.t = "If" -> if_expr(c, ex))

var_def(c, stmt) ==
    Let(compile_expr(c, stmt.ex), LAMBDA ex :
        IF ~IsOk(ex.c) THEN ex.c
        ELSE IF ex.c.target_stack[ex.r + 1].t # "Temp"
        THEN Let(add_copy_inst(ex.c, ex.r), LAMBDA c1 :
                 SetLocal(c1, stack_top(c1), stmt.name))
        ELSE SetLocal(ex.c, ex.r, stmt.name))

\* what the VarAssign arm did for stmt, started on c and ended with c1
RecordAssign(c, stmt, stk_local, c1) ==
    IF ~IsOk(c1) THEN c1
    ELSE [c1 EXCEPT !.assigns =
             Append(@, [name |-> stmt.name, ex |-> stmt.ex, from |-> Len(c.instructions),
                        to |-> Len(c1.instructions), slot |-> stk_local,
                        locals |-> c.target_stack])]

var_assign(c, stmt) ==
    Let(compile_expr(c, stmt.ex), LAMBDA stk_ex :
    Let(FindLocal(stk_ex.c, stmt.name), LAMBDA stk_local :
        IF ~IsOk(stk_ex.c) THEN stk_ex.c
        ELSE IF stk_local = None THEN Failed(stk_ex.c)
        ELSE RecordAssign(c, stmt, stk_local,
                          add_store_inst(add_copy_inst(stk_ex.c, stk_ex.r), stk_local))))

\* self.loop_stack.push(LoopFrame::new(start))
PushLoop(c, start) ==
    IF IsOk(c) THEN [c EXCEPT !.loop_stack = Append(@, LoopFrame(start))] ELSE c

\* the shadow stack after the Add of the increment: one slot fewer
PopTarget(c) ==
    IF IsOk(c) THEN SetPost([c EXCEPT !.target_stack = PopVec(@)]) ELSE c

RecordLoop(c, check, pad, exit, lv) ==
    IF IsOk(c)
    THEN [c EXCEPT !.loops = Append(@, [check |-> check, pad |-> pad, exit |-> exit,
                                        lv |-> lv])]
    ELSE c

\* the increment sequence without its Pop of the slots above the loop variable
loop_increment_without_pop(c, stk_loop_var, inst_check_exit) ==
    Let(add_literal(c, F64(1)), LAMBDA one :
        add_inst(
            add_store_inst(
                PopTarget(add_inst(SetLit(add_load_literal_inst(
                                              add_copy_inst(one.c, stk_loop_var),
                                              one.r), F64(1)),
                                   "Add", 0)),
                stk_loop_var),
            "Jmp", U8(inst_check_exit)))

\* the increment of the loop variable and the jump back to the exit check
loop_increment(c, stk_loop_var, inst_check_exit) ==
    Let(add_literal(c, F64(1)), LAMBDA one :
        add_inst(
            add_pop_until_inst(
                add_store_inst(
                    PopTarget(add_inst(SetLit(add_load_literal_inst(
                                                  add_copy_inst(one.c, stk_loop_var),
                                                  one.r), F64(1)),
                                       "Add", 0)),
                    stk_loop_var),
                stk_loop_var),
            "Jmp", U8(inst_check_exit)))

for_stmt(c, stmt) ==
    Let(compile_expr(c, stmt.start), LAMBDA stk_start :
    Let(compile_expr(stk_start.c, stmt.end), LAMBDA stk_end :
    Let(add_copy_inst(stk_end.c, stk_start.r), LAMBDA c1 :
    Let(stack_top(c1), LAMBDA stk_loop_var :
    Let(SetLocal(c1, stk_loop_var, stmt.loop_var), LAMBDA c2 :
    Let(add_binop_inst(add_copy_inst(add_copy_inst(c2, stk_loop_var), stk_end.r), "Lt"),
        LAMBDA c5 :
    Let(compile_stmts(PushLoop(add_jf_inst(c5), stk_loop_var), stmt.stmts).c, LAMBDA c8 :
    Let(fixup_jmp(loop_increment(fixup_continues(c8), stk_loop_var,
                                 Len(c2.instructions)),
                  Len(c5.instructions)), LAMBDA c17 :
        RecordLoop(fixup_breaks(c17), Len(c2.instructions), Len(c8.instructions),
                   Len(c17.instructions), stk_loop_var)))))))))

\* loop_frame.break_ips.push(InstPtr(break_ip))
PushBreak(c) ==
    IF IsOk(c)
    THEN [c EXCEPT !.loop_stack[Len(c.loop_stack)].break_ips =
                       Append(@, Len(c.instructions))]
    ELSE c

\* loop_frame.continue_ips.push((InstPtr(continue_ip), self.target_stack.len()))
PushContinue(c) ==
    IF IsOk(c)
    THEN [c EXCEPT !.loop_stack[Len(c.loop_stack)].continue_ips =
                       Append(@, [ip |-> Len(c.instructions), stk |-> Len(c.target_stack)])]
    ELSE c

\* the LoopFrame `break` and `continue` refer to: loop_stack.last()
enclosing_loop(c) == c.loop_stack[Len(c.loop_stack)]

break_stmt(c) ==
    IF c.loop_stack = <<>> THEN Failed(c)
    ELSE SetTag(add_inst(PushBreak(add_pop_until_inst(c, enclosing_loop(c).start)),
                         "Jmp", 0),
                "break")

continue_stmt(c) ==
    IF c.loop_stack = <<>> THEN Failed(c)
    ELSE SetTag(add_inst(SetTag(add_inst(PushContinue(
                                             add_pop_until_inst(c, enclosing_loop(c).start)),
                                         "Dup", 0),
                                "continue"),
                         "Jmp", 0),
                "continue_jmp")

\* the buffers of the enclosing function are put back
RestoreBuffers(c, saved) ==
    IF IsOk(c)
    THEN [c EXCEPT !.literals = saved.literals, !.instructions = saved.instructions,
                   !.loops = saved.loops, !.exprs = saved.exprs, !.assigns = saved.assigns,
                   !.target_stack = saved.target_stack]
    ELSE c

\* a function body compiled on top of the shadow stack of the enclosing code
fn_def_in_enclosing_scope(c, stmt) ==
    RestoreBuffers(
        add_fn(compile_stmts([c EXCEPT !.literals = <<>>, !.instructions = <<>>,
                                       !.loops = <<>>, !.exprs = <<>>, !.assigns = <<>>,
                                       !.target_stack = c.target_stack \o
                                                        [i \in 1..Len(stmt.args) |->
                                                            Local(stmt.args[i])]],
                             stmt.stmts).c,
               stmt.name, stmt.args),
        c)

\* fn_def that compiles the body into the literal pool of the enclosing code
fn_def_sharing_literals(c, stmt) ==
    RestoreBuffers(
        add_fn(compile_stmts([c EXCEPT !.instructions = <<>>,
                                       !.loops = <<>>, !.exprs = <<>>, !.assigns = <<>>,
                                       !.target_stack = [i \in 1..Len(stmt.args) |->
                                                            Local(stmt.args[i])]],
                             stmt.stmts).c,
               stmt.name, stmt.args),
        c)

fn_def(c, stmt) ==
    RestoreBuffers(
        add_fn(compile_stmts([c EXCEPT !.literals = <<>>, !.instructions = <<>>,
                                       !.loops = <<>>, !.exprs = <<>>, !.assigns = <<>>,
                                       !.target_stack = [i \in 1..Len(stmt.args) |->
                                                            Local(stmt.args[i])]],
                             stmt.stmts).c,
               stmt.name, stmt.args),
        c)

\* add_inst(op, (target_stack.len() - res - 1) as u8)
add_offset_inst(c, op, res) ==
    IF ~IsOk(c) THEN c
    ELSE IF c.checks /\ Len(c.target_stack) < res + 1 THEN Panicked(c)
    ELSE add_inst(c, op, U8(Len(c.target_stack) - res - 1))

return_stmt(c, stmt) ==
    Let(compile_expr(c, stmt.ex), LAMBDA res :
        add_offset_inst(add_copy_inst(res.c, res.r), "Ret", res.r))

yield_stmt(c, stmt) ==
    Let(compile_expr(c, stmt.ex), LAMBDA res :
        PopTarget(add_offset_inst(res.c, "Yield", res.r)))

\* one iteration of the `for stmt in stmts` loop of compile_stmts
compile_stmt(c, stmt, last_result) ==
    CASE stmt.t = "Expression" -> compile_expr(c, stmt.ex)
      [] stmt.t = "VarDef" -> [c |-> var_def(c, stmt), r |-> last_result]
      [] stmt.t = "VarAssign" -> [c |-> var_assign(c, stmt), r |-> last_result]
      [] stmt.t = "For" -> [c |-> for_stmt(c, stmt), r |-> last_result]
      [] stmt.t = "Break" -> [c |-> break_stmt(c), r |-> last_result]
      [] stmt.t = "Continue" -> [c |-> continue_stmt(c), r |-> last_result]
      [] stmt.t = "FnDef" -> [c |-> fn_def(c, stmt), r |-> last_result]
      [] stmt.t = "Return" -> [c |-> return_stmt(c, stmt), r |-> last_result]
      [] stmt.t = "Yield" -> [c |-> yield_stmt(c, stmt), r |-> last_result]

compile_stmts_from(c, stmts, i, last_result) ==
    IF i > Len(stmts) \/ ~IsOk(c) THEN [c |-> c, r |-> last_result]
    ELSE Let(compile_stmt(c, stmts[i], last_result), LAMBDA res :
             compile_stmts_from(res.c, stmts, i + 1, res.r))

\* Compiler::compile
compile(c, stmts) == add_fn(compile_stmts_or_zero(c, stmts).c, "main", <<>>)

\* ------------------------------------------------------------------------
\* Checked programs
\* ------------------------------------------------------------------------
PrintS(ex) == ExprS(FnInvoke("print", <<ex>>))

\* fn h(a) { yield a + 1; a + 2 }
\* fn g(a, b) { var t = h(a); return t + b; }
FnH == FnDefS("h", <<"a">>, << YieldS(AddE(Ident("a"), NumLiteral(1))),
                             ExprS(AddE(Ident("a"), NumLiteral(2))) >>)
FnG == FnDefS("g", <<"a", "b">>, << VarDef("t", FnInvoke("h", <<Ident("a")>>)),
                                  Return(AddE(Ident("t"), Ident("b"))) >>)

\* programs without a for-loop
PlainPrograms ==
    << \* var x = 1; var y = 2; yield x; x;
       << VarDef("x", NumLiteral(1)), VarDef("y", NumLiteral(2)), YieldS(Ident("x")),
          ExprS(Ident("x")) >>,
       \* yield 1; yield 2; 3
       << YieldS(NumLiteral(1)), YieldS(NumLiteral(2)), ExprS(NumLiteral(3)) >>,
       \* fn f() { yield 1; yield 2; 3 } f()
       << FnDefS("f", <<>>, << YieldS(NumLiteral(1)), YieldS(NumLiteral(2)),
                              ExprS(NumLiteral(3)) >>),
          ExprS(FnInvoke("f", <<>>)) >>,
       \* fn h.. fn g.. var x = 5; print(g(x, 2));
       << FnH, FnG, VarDef("x", NumLiteral(5)),
          PrintS(FnInvoke("g", <<Ident("x"), NumLiteral(2)>>)) >>,
       \* var x = 5; return x;
       << VarDef("x", NumLiteral(5)), Return(Ident("x")) >>,
       \* var x = 5; print(x); x
       << VarDef("x", NumLiteral(5)), PrintS(Ident("x")), ExprS(Ident("x")) >>,
       \* fn add(a, b) { a + b } print(add(2, 3));
       << FnDefS("add", <<"a", "b">>, << ExprS(AddE(Ident("a"), Ident("b"))) >>),
          PrintS(FnInvoke("add", <<NumLiteral(2), NumLiteral(3)>>)) >>,
       \* var x = 1 + 2 * 3; print(x / 2 - 1);
       << VarDef("x", AddE(NumLiteral(1), MulE(NumLiteral(2), NumLiteral(3)))),
          PrintS(SubE(DivE(Ident("x"), NumLiteral(2)), NumLiteral(1))) >>,
       \* print("hi " + "there");
       << PrintS(AddE(StrLiteral("hi "), StrLiteral("there"))) >>,
       \* fn fact(n) { if n < 2 { 1 } else { n * fact(n - 1) } } print(fact(3));
       << FnDefS("fact", <<"n">>,
                 << ExprS(IfElseE(LtE(Ident("n"), NumLiteral(2)),
                                  << ExprS(NumLiteral(1)) >>,
                                  << ExprS(MulE(Ident("n"),
                                                FnInvoke("fact", << SubE(Ident("n"),
                                                                        NumLiteral(1)) >>)))
                                  >>)) >>),
          PrintS(FnInvoke("fact", <<NumLiteral(3)>>)) >>,
       \* var x = 1; x; yield x;
       << VarDef("x", NumLiteral(1)), ExprS(Ident("x")), YieldS(Ident("x")) >>,
       \* break;
       << Break >>,
       \* fn print(a) { dbg(a); a + 1 } print(2)
       << FnDefS("print", <<"a">>, << ExprS(FnInvoke("dbg", <<Ident("a")>>)),
                                     ExprS(AddE(Ident("a"), NumLiteral(1))) >>),
          ExprS(FnInvoke("print", <<NumLiteral(2)>>)) >>,
       \* var x = 1; y;
       << VarDef("x", NumLiteral(1)), ExprS(Ident("y")) >>,
       \* var x = 1; y = 2;
       << VarDef("x", NumLiteral(1)), VarAssign("y", NumLiteral(2)) >>,
       \* var x = 1; fn f(a) { a + x } print(f(2));
       << VarDef("x", NumLiteral(1)),
          FnDefS("f", <<"a">>, << ExprS(AddE(Ident("a"), Ident("x"))) >>),
          PrintS(FnInvoke("f", <<NumLiteral(2)>>)) >>,
       \* var x = 1; fn f(a) { x = a; 0 } print(f(2));
       << VarDef("x", NumLiteral(1)),
          FnDefS("f", <<"a">>, << VarAssign("x", Ident("a")), ExprS(NumLiteral(0)) >>),
          PrintS(FnInvoke("f", <<NumLiteral(2)>>)) >>,
       \* var x = 1; fn f(x) { x = x + 1; x } print(f(5)); print(x);
       << VarDef("x", NumLiteral(1)),
          FnDefS("f", <<"x">>, << VarAssign("x", AddE(Ident("x"), NumLiteral(1))),
                                 ExprS(Ident("x")) >>),
          PrintS(FnInvoke("f", <<NumLiteral(5)>>)), PrintS(Ident("x")) >>,
       \* print(1); nofn(2); print(3);
       << PrintS(NumLiteral(1)), ExprS(FnInvoke("nofn", <<NumLiteral(2)>>)),
          PrintS(NumLiteral(3)) >>,
       \* continue;
       << Continue >>,
       \* var a = 2; var b = 5; print(if a < b { a } else { b });
       << VarDef("a", NumLiteral(2)), VarDef("b", NumLiteral(5)),
          PrintS(IfElseE(LtE(Ident("a"), Ident("b")), << ExprS(Ident("a")) >>,
                         << ExprS(Ident("b")) >>)) >>,
       \* var a = 2; var b = 5; print(if b < a { 7 });
       << VarDef("a", NumLiteral(2)), VarDef("b", NumLiteral(5)),
          PrintS(IfE(LtE(Ident("b"), Ident("a")), << ExprS(NumLiteral(7)) >>)) >>,
       \* var x = 0; var y = 7; if x { 1 }
       << VarDef("x", NumLiteral(0)), VarDef("y", NumLiteral(7)),
          ExprS(IfE(Ident("x"), << ExprS(NumLiteral(1)) >>)) >>,
       \* var a = 2; var b = 5; print(if b < a { a + 1 } else { 1; 2; 3 });
       << VarDef("a", NumLiteral(2)), VarDef("b", NumLiteral(5)),
          PrintS(IfElseE(LtE(Ident("b"), Ident("a")),
                         << ExprS(AddE(Ident("a"), NumLiteral(1))) >>,
                         << ExprS(NumLiteral(1)), ExprS(NumLiteral(2)),
                            ExprS(NumLiteral(3)) >>)) >>,
       \* var a = 2; var b = 5; print((a + b) * a - b / a);
       << VarDef("a", NumLiteral(2)), VarDef("b", NumLiteral(5)),
          PrintS(SubE(MulE(AddE(Ident("a"), Ident("b")), Ident("a")),
                      DivE(Ident("b"), Ident("a")))) >>,
       \* var a = 2; print(if 1 < a { a * 2 });
       << VarDef("a", NumLiteral(2)),
          PrintS(IfE(LtE(NumLiteral(1), Ident("a")),
                     << ExprS(MulE(Ident("a"), NumLiteral(2))) >>)) >>,
       \* var a = 2; var b = a; b = 7; print(a); print(b);
       << VarDef("a", NumLiteral(2)), VarDef("b", Ident("a")),
          VarAssign("b", NumLiteral(7)), PrintS(Ident("a")), PrintS(Ident("b")) >>,
       \* var a = 2; var b = a; a = a + b * 3; b = a; print(a); print(b);
       << VarDef("a", NumLiteral(2)), VarDef("b", Ident("a")),
          VarAssign("a", AddE(Ident("a"), MulE(Ident("b"), NumLiteral(3)))),
          VarAssign("b", Ident("a")), PrintS(Ident("a")), PrintS(Ident("b")) >>,
       \* var x = 1; fn f(a) { a * 3 } print(f(x) + 1);
       << VarDef("x", NumLiteral(1)),
          FnDefS("f", <<"a">>, << ExprS(MulE(Ident("a"), NumLiteral(3))) >>),
          PrintS(AddE(FnInvoke("f", <<Ident("x")>>), NumLiteral(1))) >>,
       \* fn f(a, b) { a } print(f(1, 2));
       << FnDefS("f", <<"a", "b">>, << ExprS(Ident("a")) >>),
          PrintS(FnInvoke("f", <<NumLiteral(1), NumLiteral(2)>>)) >>,
       \* var x = 1; var x = 2; print(x);
       << VarDef("x", NumLiteral(1)), VarDef("x", NumLiteral(2)), PrintS(Ident("x")) >>
    >>

\* programs with `for V in s to e`
LoopPrograms(s, e) ==
    << \* for i in s to e { print(i); }
       << For("i", NumLiteral(s), NumLiteral(e), << PrintS(Ident("i")) >>) >>,
       \* var i = 7; for i in s to e { print(i); }
       << VarDef("i", NumLiteral(7)),
          For("i", NumLiteral(s), NumLiteral(e), << PrintS(Ident("i")) >>) >>,
       \* for i in s to e { if i > 0 { break; } print(i); }
       << For("i", NumLiteral(s), NumLiteral(e),
              << ExprS(IfE(GtE(Ident("i"), NumLiteral(0)), << Break >>)),
                 PrintS(Ident("i")) >>) >>,
       \* for i in s to e { if i < 1 { continue; } print(i); }
       << For("i", NumLiteral(s), NumLiteral(e),
              << ExprS(IfE(LtE(Ident("i"), NumLiteral(1)), << Continue >>)),
                 PrintS(Ident("i")) >>) >>,
       \* for i in s to e { for j in 0 to e { if j > 0 { break; } print(j); } print(i); }
       << For("i", NumLiteral(s), NumLiteral(e),
              << For("j", NumLiteral(0), NumLiteral(e),
                     << ExprS(IfE(GtE(Ident("j"), NumLiteral(0)), << Break >>)),
                        PrintS(Ident("j")) >>),
                 PrintS(Ident("i")) >>) >>,
       \* for i in s to e { for j in s to e { if j < 1 { continue; } print(j); } print(i); }
       << For("i", NumLiteral(s), NumLiteral(e),
              << For("j", NumLiteral(s), NumLiteral(e),
                     << ExprS(IfE(LtE(Ident("j"), NumLiteral(1)), << Continue >>)),
                        PrintS(Ident("j")) >>),
                 PrintS(Ident("i")) >>) >>,
       \* for i in s to e { continue; }
       << For("i", NumLiteral(s), NumLiteral(e), << Continue >>) >>,
       \* var acc = 0; for i in s to e { acc = acc + i; } print(acc);
       << VarDef("acc", NumLiteral(0)),
          For("i", NumLiteral(s), NumLiteral(e),
              << VarAssign("acc", AddE(Ident("acc"), Ident("i"))) >>),
          PrintS(Ident("acc")) >>,
       \* fn f(n) { for i in s to n { yield i + 10; } 0 } print(f(e));
       << FnDefS("f", <<"n">>,
                 << For("i", NumLiteral(s), Ident("n"),
                        << YieldS(AddE(Ident("i"), NumLiteral(10))) >>),
                    ExprS(NumLiteral(0)) >>),
          PrintS(FnInvoke("f", <<NumLiteral(e)>>)) >>,
       \* for i in s to e { if i > 0 { return i; } }
       << For("i", NumLiteral(s), NumLiteral(e),
              << ExprS(IfE(GtE(Ident("i"), NumLiteral(0)), << Return(Ident("i")) >>)) >>) >>,
       \* for i in s to e { var a = i + 1; print(a); break; }
       << For("i", NumLiteral(s), NumLiteral(e),
              << VarDef("a", AddE(Ident("i"), NumLiteral(1))), PrintS(Ident("a")),
                 Break >>) >>,
       \* fn f(n) { for i in s to n { if i > 0 { break; } print(i); } 7 } print(f(e));
       << FnDefS("f", <<"n">>,
                 << For("i", NumLiteral(s), Ident("n"),
                        << ExprS(IfE(GtE(Ident("i"), NumLiteral(0)), << Break >>)),
                           PrintS(Ident("i")) >>),
                    ExprS(NumLiteral(7)) >>),
          PrintS(FnInvoke("f", <<NumLiteral(e)>>)) >>,
       \* for i in s to e { yield i; break; }
       << For("i", NumLiteral(s), NumLiteral(e), << YieldS(Ident("i")), Break >>) >>,
       \* for i in s to e { yield i; continue; }
       << For("i", NumLiteral(s), NumLiteral(e), << YieldS(Ident("i")), Continue >>) >>,
       \* for i in s to e { fn f() { break; } print(i); }
       << For("i", NumLiteral(s), NumLiteral(e),
              << FnDefS("f", <<>>, << Break >>), PrintS(Ident("i")) >>) >>,
       \* for i in s to e { fn f() { continue; } print(i); }
       << For("i", NumLiteral(s), NumLiteral(e),
              << FnDefS("f", <<>>, << Continue >>), PrintS(Ident("i")) >>) >>,
       \* for i in s to e { fn f(a) { print(a); 1; 2; 3; continue; } yield 5; }
       << For("i", NumLiteral(s), NumLiteral(e),
              << FnDefS("f", <<"a">>, << PrintS(Ident("a")), ExprS(NumLiteral(1)),
                                        ExprS(NumLiteral(2)), ExprS(NumLiteral(3)),
                                        Continue >>),
                 YieldS(NumLiteral(5)) >>) >>,
       \* for i in s to e { print(i); } for i in s to e { print(i); }
       << For("i", NumLiteral(s), NumLiteral(e), << PrintS(Ident("i")) >>),
          For("i", NumLiteral(s), NumLiteral(e), << PrintS(Ident("i")) >>) >>,
       \* for i in s to e { var x = 5; if i > 0 { break; } print(x); }
       << For("i", NumLiteral(s), NumLiteral(e),
              << VarDef("x", NumLiteral(5)),
                 ExprS(IfE(GtE(Ident("i"), NumLiteral(0)), << Break >>)),
                 PrintS(Ident("x")) >>) >>,
       \* for i in s to e { var x = 5; if i < 1 { continue; } print(x); }
       << For("i", NumLiteral(s), NumLiteral(e),
              << VarDef("x", NumLiteral(5)),
                 ExprS(IfE(LtE(Ident("i"), NumLiteral(1)), << Continue >>)),
                 PrintS(Ident("x")) >>) >>,
       \* for i in s to e { yield i; }
       << For("i", NumLiteral(s), NumLiteral(e), << YieldS(Ident("i")) >>) >>
    >>

\* the AST of the program selected by src = [loop, p, s, e]
ProgramOf(src) ==
    IF src.loop THEN LoopPrograms(src.s, src.e)[src.p] ELSE PlainPrograms[src.p]

Sources ==
    {[loop |-> FALSE, p |-> p, s |-> 0, e |-> 0] : p \in 1..Len(PlainPrograms)}
    \cup {[loop |-> TRUE, p |-> p, s |-> s, e |-> e] :
            p \in 1..Len(LoopPrograms(0, 0)), s \in 0..MaxStart, e \in 0..MaxEnd}

\* ------------------------------------------------------------------------
\* Bytecode container: the byte stream written by write_funcs and read by
\* read_funcs.  A byte is a number of 0..255.  A reader's result is
\* [st, v, rest]: st = "ok" with the value read and the bytes left, "err"
\* (an io::Error returned through `?`) or "panic".
\* value.rs is not part of the sources: the encodings of sizes, strings and
\* values follow the container format of the specification (u32 sizes,
\* little-endian; string = size, bytes; value = tag 0 f64 / 1 i64 / 2 string).
\* ------------------------------------------------------------------------
Ok(v, rest) == [st |-> "ok", v |-> v, rest |-> rest]
Fail(st) == [st |-> st, v |-> <<>>, rest |-> <<>>]

RECURSIVE Concat(_)
Concat(seqs) == IF seqs = <<>> THEN <<>> ELSE Head(seqs) \o Concat(Tail(seqs))

Reverse(seq) == [i \in 1..Len(seq) |-> seq[Len(seq) + 1 - i]]

RECURSIVE Pow2(_)
Pow2(k) == IF k = 0 THEN 1 ELSE 2 * Pow2(k - 1)

\* Read::read_exact of n bytes
read_exact(bytes, n) ==
    IF Len(bytes) < n THEN Fail("err")
    ELSE Ok(SubSeq(bytes, 1, n), SubSeq(bytes, n + 1, Len(bytes)))

\* the k low bytes of x in two's complement, least significant first
RECURSIVE to_le_bytes(_, _)
to_le_bytes(x, k) ==
    IF k = 0 THEN <<>>
    ELSE <<x % U8Mod>> \o to_le_bytes((x - (x % U8Mod)) \div U8Mod, k - 1)

\* the unsigned number of little-endian bytes
RECURSIVE from_le_bytes(_)
from_le_bytes(bytes) ==
    IF bytes = <<>> THEN 0 ELSE bytes[1] + U8Mod * from_le_bytes(Tail(bytes))

\* i64::from_le_bytes: the top bit of the last byte is the sign
RECURSIVE i64_from_le_bytes(_)
i64_from_le_bytes(bytes) ==
    IF Len(bytes) = 1 THEN (IF bytes[1] < 128 THEN bytes[1] ELSE bytes[1] - U8Mod)
    ELSE bytes[1] + U8Mod * i64_from_le_bytes(Tail(bytes))

\* the exponent e of the positive a/d: 2^e <= a/d < 2^(e+1)
f64_exponent(a, d) ==
    CHOOSE e \in -20..20 :
        IF e >= 0 THEN Pow2(e) * d <= a /\ a < Pow2(e + 1) * d
        ELSE d <= Pow2(-e) * a /\ Pow2(-e - 1) * a < d

\* k bytes of the fraction num/den < 1, most significant first
RECURSIVE frac_bytes(_, _, _)
frac_bytes(num, den, k) ==
    IF k = 0 THEN <<>>
    ELSE <<(U8Mod * num) \div den>> \o frac_bytes((U8Mod * num) % den, den, k - 1)

\* sign bit, 11 exponent bits, 52 fraction bits, least significant byte first
f64_bits(sign, exp, top, low) ==
    Reverse(<<(sign * 128) + (exp \div 16), ((exp % 16) * 16) + top>> \o low)

\* f64::to_le_bytes (IEEE-754 binary64) of n/d, d a power of two
f64_to_le_bytes(v) ==
    IF v.d = 0 THEN
        IF v.n = 0 THEN f64_bits(0, 2047, 8, <<0, 0, 0, 0, 0, 0>>)
        ELSE f64_bits(IF v.n < 0 THEN 1 ELSE 0, 2047, 0, <<0, 0, 0, 0, 0, 0>>)
    ELSE IF v.n = 0 THEN <<0, 0, 0, 0, 0, 0, 0, 0>>
    ELSE LET e == f64_exponent(Abs(v.n), v.d)
             num == IF e >= 0 THEN Abs(v.n) ELSE Abs(v.n) * Pow2(-e)
             den == IF e >= 0 THEN v.d * Pow2(e) ELSE v.d
             f16 == 16 * (num - den)
         IN f64_bits(IF v.n < 0 THEN 1 ELSE 0, e + 1023, f16 \div den,
                     frac_bytes(f16 % den, den, 6))

\* (acc + b1) / 256, then (that + b2) / 256, ...: the fraction the bytes spell
RECURSIVE frac_of(_, _)
frac_of(bytes, acc) ==
    IF bytes = <<>> THEN acc
    ELSE frac_of(Tail(bytes), Rat(acc.n + bytes[1] * acc.d, acc.d * U8Mod))

\* f64::from_le_bytes
f64_from_le_bytes(bytes) ==
    LET sign == IF bytes[8] >= 128 THEN -1 ELSE 1
        exp == ((bytes[8] % 128) * 16) + (bytes[7] \div 16)
        low == frac_of(SubSeq(bytes, 1, 6), Rat(0, 1))
        frac == Rat(low.n + ((bytes[7] % 16) * low.d), low.d * 16)
    IN IF exp = 2047 THEN Rat(IF frac.n = 0 THEN sign ELSE 0, 0)
       ELSE IF exp = 0 /\ frac.n = 0 THEN Rat(0, 1)
       ELSE IF exp >= 1023 THEN Rat(sign * (frac.n + frac.d) * Pow2(exp - 1023), frac.d)
       ELSE Rat(sign * (frac.n + frac.d), frac.d * Pow2(1023 - exp))

\* the UTF-8 bytes of the strings of the model (all ASCII)
Utf8 ==
    ("" :> <<>>) @@ ("main" :> <<109, 97, 105, 110>>) @@
    ("print" :> <<112, 114, 105, 110, 116>>) @@ ("dbg" :> <<100, 98, 103>>) @@
    ("a" :> <<97>>) @@ ("b" :> <<98>>) @@ ("f" :> <<102>>) @@ ("g" :> <<103>>) @@
    ("h" :> <<104>>) @@ ("i" :> <<105>>) @@ ("j" :> <<106>>) @@ ("n" :> <<110>>) @@
    ("t" :> <<116>>) @@ ("x" :> <<120>>) @@ ("y" :> <<121>>) @@
    ("acc" :> <<97, 99, 99>>) @@ ("add" :> <<97, 100, 100>>) @@
    ("fact" :> <<102, 97, 99, 116>>) @@ ("hi " :> <<104, 105, 32>>) @@
    ("there" :> <<116, 104, 101, 114, 101>>) @@ ("nofn" :> <<110, 111, 102, 110>>)

\* String::from_utf8: Fail on bytes that spell no string of the model
from_utf8(bytes) ==
    IF \E s \in DOMAIN Utf8 : Utf8[s] = bytes
    THEN Ok(CHOOSE s \in DOMAIN Utf8 : Utf8[s] = bytes, <<>>)
    ELSE Fail("err")

\* value::serialize_size, value::deserialize_size
serialize_size(n) == to_le_bytes(n, 4)

deserialize_size(bytes) ==
    Let(read_exact(bytes, 4),
        LAMBDA r : IF r.st # "ok" THEN r ELSE Ok(from_le_bytes(r.v), r.rest))

\* value::serialize_str, value::deserialize_str
serialize_str(s) == serialize_size(Len(Utf8[s])) \o Utf8[s]

deserialize_str(bytes) ==
    Let(deserialize_size(bytes),
        LAMBDA n : IF n.st # "ok" THEN n
                   ELSE Let(read_exact(n.rest, n.v),
                            LAMBDA r : IF r.st # "ok" THEN r
                                       ELSE Let(from_utf8(r.v),
                                                LAMBDA s : IF s.st # "ok" THEN s
                                                           ELSE Ok(s.v, r.rest))))

\* Value::serialize
Value_serialize(v) ==
    CASE v.k = "F64" -> <<0>> \o f64_to_le_bytes(v)
      [] v.k = "I64" -> <<1>> \o to_le_bytes(v.n, 8)
      [] v.k = "Str" -> <<2>> \o serialize_str(v.s)

\* Value::deserialize after the tag byte
value_of(tag, bytes) ==
    CASE tag = 0 -> Let(read_exact(bytes, 8),
                        LAMBDA r : IF r.st # "ok" THEN r
                                   ELSE Ok(f64_from_le_bytes(r.v), r.rest))
      [] tag = 1 -> Let(read_exact(bytes, 8),
                        LAMBDA r : IF r.st # "ok" THEN r
                                   ELSE Ok(I64(i64_from_le_bytes(r.v)), r.rest))
      [] tag = 2 -> Let(deserialize_str(bytes),
                        LAMBDA r : IF r.st # "ok" THEN r ELSE Ok(StrV(r.v), r.rest))
      [] OTHER -> Fail("err")

\* Value::deserialize
Value_deserialize(bytes) ==
    Let(read_exact(bytes, 1),
        LAMBDA t : IF t.st # "ok" THEN t ELSE value_of(t.v[1], t.rest))

\* OpCode: the u8 of an opcode is its position in the enum
OpCodes ==
    <<"LoadLiteral", "Store", "Copy", "Dup", "Add", "Sub", "Mul", "Div", "Call", "Jmp",
      "Jf", "Lt", "Pop", "Ret", "Yield">>

\* `op as u8`
OpCode_as_u8(op) == (CHOOSE i \in 1..Len(OpCodes) : OpCodes[i] = op) - 1

\* the immediate written before the opcode
Instruction_serialize_arg_first(inst) == <<inst.arg0, OpCode_as_u8(inst.op)>>

\* Instruction::serialize
Instruction_serialize(inst) == <<OpCode_as_u8(inst.op), inst.arg0>>

\* Instruction::deserialize; From<u8> for OpCode panics on an unknown byte
Instruction_deserialize(bytes) ==
    Let(read_exact(bytes, 2),
        LAMBDA r : IF r.st # "ok" THEN r
                   ELSE IF r.v[1] >= Len(OpCodes) THEN Fail("panic")
                   ELSE Ok([op |-> OpCodes[r.v[1] + 1], arg0 |-> r.v[2]], r.rest))

\* FnByteCode: args, literals and (op, arg0) pairs of a compiled function
FnByteCode(f) ==
    [args |-> f.args, literals |-> f.literals,
     instructions |-> [i \in 1..Len(f.instructions) |->
                          [op |-> f.instructions[i].op, arg0 |-> f.instructions[i].arg0]]]

NoFn == [args |-> <<>>, literals |-> <<>>, instructions |-> <<>>]

\* FnByteCode::write_args, write_literals, write_insts, serialize
write_args(args) ==
    serialize_size(Len(args)) \o Concat([i \in 1..Len(args) |-> serialize_str(args[i])])

write_literals(literals) ==
    serialize_size(Len(literals))
        \o Concat([i \in 1..Len(literals) |-> Value_serialize(literals[i])])

write_insts(instructions) ==
    serialize_size(Len(instructions))
        \o [j \in 1..(2 * Len(instructions)) |->
               Instruction_serialize(instructions[(j + 1) \div 2])[2 - (j % 2)]]

FnByteCode_serialize(f) ==
    write_args(f.args) \o write_literals(f.literals) \o write_insts(f.instructions)

\* the loops of read_args, read_literals, read_instructions: n more items
RECURSIVE read_strs(_, _, _)
read_strs(bytes, n, acc) ==
    IF n = 0 THEN Ok(acc, bytes)
    ELSE Let(deserialize_str(bytes),
             LAMBDA r : IF r.st # "ok" THEN r
                        ELSE read_strs(r.rest, n - 1, Append(acc, r.v)))

RECURSIVE read_values(_, _, _)
read_values(bytes, n, acc) ==
    IF n = 0 THEN Ok(acc, bytes)
    ELSE Let(Value_deserialize(bytes),
             LAMBDA r : IF r.st # "ok" THEN r
                        ELSE read_values(r.rest, n - 1, Append(acc, r.v)))

\* the loop of read_instructions over n instructions of two bytes each: it
\* stops at the first instruction whose opcode is unknown (panic) or whose
\* bytes are missing (error)
read_insts(bytes, n) ==
    LET got == IF Len(bytes) \div 2 < n THEN Len(bytes) \div 2 ELSE n
        items == [i \in 1..got |-> Instruction_deserialize(SubSeq(bytes, (2 * i) - 1, 2 * i))]
    IN IF \E i \in 1..got : items[i].st # "ok" THEN Fail("panic")
       ELSE IF got < n THEN Fail("err")
       ELSE Ok([i \in 1..n |-> items[i].v], SubSeq(bytes, (2 * n) + 1, Len(bytes)))

\* FnByteCode::read_args, read_literals, read_instructions
read_args(bytes) ==
    Let(deserialize_size(bytes),
        LAMBDA n : IF n.st # "ok" THEN n ELSE read_strs(n.rest, n.v, <<>>))

read_literals(bytes) ==
    Let(deserialize_size(bytes),
        LAMBDA n : IF n.st # "ok" THEN n ELSE read_values(n.rest, n.v, <<>>))

read_instructions(bytes) ==
    Let(deserialize_size(bytes),
        LAMBDA n : IF n.st # "ok" THEN n ELSE read_insts(n.rest, n.v))

\* FnByteCode::deserialize
FnByteCode_deserialize(bytes) ==
    Let(read_args(bytes),
        LAMBDA a : IF a.st # "ok" THEN a
                   ELSE Let(read_literals(a.rest),
                            LAMBDA l : IF l.st # "ok" THEN l
                                       ELSE Let(read_instructions(l.rest),
                                                LAMBDA i : IF i.st # "ok" THEN i
                                                           ELSE Ok([args |-> a.v,
                                                                    literals |-> l.v,
                                                                    instructions |-> i.v],
                                                                   i.rest))))

\* the orders in which a HashMap may hand out its keys
Orders(keys) ==
    {o \in [1..Cardinality(keys) -> keys] : \A i, j \in DOMAIN o : o[i] = o[j] => i = j}

\* Compiler::write_funcs, the HashMap iterated in `order`
write_funcs(funcs, order) ==
    serialize_size(Len(order))
        \o Concat([i \in 1..Len(order) |->
                      serialize_str(order[i]) \o FnByteCode_serialize(FnByteCode(funcs[order[i]]))])

\* the natives the programs of the model call: the printer and the debug
\* printer (the math functions and the coercions i64, f64, str are left out)
NativeNames == {"print", "dbg"}

\* standard_functions() filtered to the natives
natives == [n \in NativeNames |-> [kind |-> "Native", fn |-> NoFn]]

\* the loop of read_funcs: n more functions inserted into funcs
RECURSIVE read_fn_entries(_, _, _)
read_fn_entries(bytes, n, funcs) ==
    IF n = 0 THEN Ok(funcs, bytes)
    ELSE Let(deserialize_str(bytes),
             LAMBDA name :
                 IF name.st # "ok" THEN name
                 ELSE Let(FnByteCode_deserialize(name.rest),
                          LAMBDA f : IF f.st # "ok" THEN f
                                     ELSE read_fn_entries(f.rest, n - 1,
                                              Insert(funcs, name.v,
                                                     [kind |-> "User", fn |-> f.v]))))

\* ByteCode::read_funcs: the natives first, then every user function of the
\* stream inserted over them
read_funcs(bytes) ==
    Let(deserialize_size(bytes),
        LAMBDA n : IF n.st # "ok" THEN n ELSE read_fn_entries(n.rest, n.v, natives))

\* Value::coerce_f64 (panics on a string)
coerce_f64(v) == IF v.k = "Str" THEN [ok |-> FALSE, v |-> v]
                 ELSE [ok |-> TRUE, v |-> Rat(v.n, v.d)]

\* the code of print and dbg: [ok, v]; both read args[0] (ok = FALSE is the
\* panic of the index) and return I64(0)
native_code(name, args) ==
    IF args = <<>> THEN [ok |-> FALSE, v |-> I64(0)] ELSE [ok |-> TRUE, v |-> I64(0)]

\* ------------------------------------------------------------------------
\* Arithmetic of the VM
\* ------------------------------------------------------------------------
\* op_f64 of each opcode on n1/d1 and n2/d2; a value with d = 0 is non-finite
op_f64(op, a, b) ==
    LET nan == Rat(0, 0)
        finite == a.d # 0 /\ b.d # 0
        is_nan(v) == v.d = 0 /\ v.n = 0
    IN CASE op = "Add" ->
              IF finite THEN Rat(a.n * b.d + b.n * a.d, a.d * b.d)
              ELSE IF is_nan(a) \/ is_nan(b) \/ (a.d = 0 /\ b.d = 0 /\ a.n # b.n) THEN nan
              ELSE IF a.d = 0 THEN a ELSE b
         [] op = "Sub" ->
              IF finite THEN Rat(a.n * b.d - b.n * a.d, a.d * b.d)
              ELSE IF is_nan(a) \/ is_nan(b) \/ (a.d = 0 /\ b.d = 0 /\ a.n = b.n) THEN nan
              ELSE IF a.d = 0 THEN a ELSE Rat(-b.n, 0)
         [] op = "Mul" -> Rat(a.n * b.n, a.d * b.d)
         [] op = "Div" -> Rat(a.n * b.d, a.d * b.n)
         [] op = "Lt" ->
              IF is_nan(a) \/ is_nan(b) THEN F64(0)
              ELSE IF finite THEN F64(IF a.n * b.d < b.n * a.d THEN 1 ELSE 0)
              ELSE IF a.d = 0 /\ b.d = 0 THEN F64(IF a.n < b.n THEN 1 ELSE 0)
              ELSE IF a.d = 0 THEN F64(IF a.n < 0 THEN 1 ELSE 0)
              ELSE F64(IF b.n > 0 THEN 1 ELSE 0)

\* op_i64 of each opcode (the values of the model stay far from the ends of
\* the i64 range); [ok, v], ok = FALSE is the panic of a division by zero
op_i64(op, a, b) ==
    CASE op = "Add" -> [ok |-> TRUE, v |-> I64(a + b)]
      [] op = "Sub" -> [ok |-> TRUE, v |-> I64(a - b)]
      [] op = "Mul" -> [ok |-> TRUE, v |-> I64(a * b)]
      [] op = "Div" ->
           IF b = 0 THEN [ok |-> FALSE, v |-> I64(0)]
           ELSE [ok |-> TRUE,
                 v |-> I64((IF (a < 0) = (b < 0) THEN 1 ELSE -1) * (Abs(a) \div Abs(b)))]
      [] op = "Lt" -> [ok |-> TRUE, v |-> I64(IF a < b THEN 1 ELSE 0)]

\* Vm::interpret_bin_op_str with the closures interpret passes for `op`
\* (interpret_bin_op passes an op_str that returns None)
interpret_bin_op_str(op, lhs, rhs) ==
    CASE lhs.k = "F64" /\ rhs.k = "F64" -> [ok |-> TRUE, v |-> op_f64(op, lhs, rhs)]
      [] lhs.k = "I64" /\ rhs.k = "I64" -> op_i64(op, lhs.n, rhs.n)
      [] lhs.k = "F64" /\ rhs.k = "I64" -> [ok |-> TRUE, v |-> op_f64(op, lhs, Rat(rhs.n, 1))]
      [] lhs.k = "I64" /\ rhs.k = "F64" -> [ok |-> TRUE, v |-> op_f64(op, Rat(lhs.n, 1), rhs)]
      [] lhs.k = "Str" /\ rhs.k = "Str" ->
           IF op = "Add" THEN [ok |-> TRUE, v |-> StrV(lhs.s \o rhs.s)]
           ELSE [ok |-> FALSE, v |-> lhs]
      [] OTHER -> [ok |-> FALSE, v |-> lhs]

\* ------------------------------------------------------------------------
\* Virtual machine and host
\* ------------------------------------------------------------------------
VARIABLES
    source,        \* the program given to the compiler (an element of Sources)
    checks,        \* TRUE: the build checks integer overflow (debug profile)
    phase,         \* where main() is: "source", "compiled", "loaded", "ready" (in
                   \* run_coro, about to call interpret), "running" (inside
                   \* interpret), "finished", "error", "exited", "compile_error",
                   \* "load_error", "panic", "returned" (run_fn has returned)
    compiler,      \* the Compiler
    bytecode,      \* ByteCode.funcs
    stack_frames,  \* Vm.stack_frames
    result,        \* what the last call of interpret returned
    results,       \* history: everything interpret has returned so far
    log,           \* history: the native calls made, [name, args]
    yields,        \* history: for every Yield a executed, the slot at offset a
    last           \* history: the instruction completed last

vars == <<source, checks, phase, compiler, bytecode, stack_frames, result, results,
          log, yields, last>>

NoRes == [kind |-> "None", val |-> NoVal]
Suspend(v) == [kind |-> "Suspend", val |-> v]
Finished(v) == [kind |-> "Finished", val |-> v]
Err(msg) == [kind |-> "Err", val |-> StrV(msg)]
NoLast == [op |-> "none", fi |-> 0, fn |-> "", ip |-> 0, a |-> 0, before |-> <<>>,
           val |-> NoVal]

\* StackFrame::new
StackFrame_new(fn, args) == [fn |-> fn, args |-> Len(args), stack |-> args, ip |-> 0]

Init ==
    /\ source \in Sources
    /\ checks \in BOOLEAN
    /\ phase = "source"
    /\ compiler = Compiler_new(checks)
    /\ bytecode = <<>>
    /\ stack_frames = <<>>
    /\ result = NoRes
    /\ results = <<>>
    /\ log = <<>>
    /\ yields = <<>>
    /\ last = NoLast

\* write_program: Compiler::new, compile
Compile ==
    /\ phase = "source"
    /\ compiler' = compile(Compiler_new(checks), ProgramOf(source))
    /\ phase' = CASE compiler'.err = "ok" -> "compiled"
                  [] compiler'.err = "panic" -> "panic"
                  [] OTHER -> "compile_error"
    /\ UNCHANGED <<source, checks, bytecode, stack_frames, result, results, log, yields,
                   last>>

\* write_funcs into the buffer (the file), then read_program from it; an
\* error of read_program ends main
ReadProgram ==
    /\ phase = "compiled"
    /\ \E order \in Orders(DOMAIN compiler.funcs) :
          \E r \in {read_funcs(write_funcs(compiler.funcs, order))} :
             /\ bytecode' = IF r.st = "ok" THEN r.v ELSE bytecode
             /\ phase' = CASE r.st = "ok" -> "loaded"
                           [] r.st = "panic" -> "panic"
                           [] OTHER -> "load_error"
    /\ UNCHANGED <<source, checks, compiler, stack_frames, result, results, log, yields,
                   last>>

\* init_fn that makes a frame for a native as well
init_fn_of_any(frames, fn_name, args) ==
    IF fn_name \notin DOMAIN bytecode THEN frames
    ELSE Append(frames, StackFrame_new(fn_name, args))

\* Vm::init_fn; Err leaves the frames as they are
init_fn(frames, fn_name, args) ==
    IF fn_name \notin DOMAIN bytecode \/ bytecode[fn_name].kind = "Native" THEN frames
    ELSE Append(frames, StackFrame_new(fn_name, args))

\* run_coro: vm.init_fn("main", &[]); an error is printed and the loop entered
InitFn ==
    /\ phase = "loaded"
    /\ stack_frames' = init_fn(stack_frames, "main", <<>>)
    /\ phase' = "ready"
    /\ UNCHANGED <<source, checks, compiler, bytecode, result, results, log, yields, last>>

\* run_coro: the loop calls vm.interpret() again after a Suspend, unless the
\* value is "break" and the debugger prompt answers exit
Resume ==
    /\ phase = "ready"
    /\ \E exit \in IF result = Suspend(StrV("break")) THEN BOOLEAN ELSE {FALSE} :
          phase' = IF exit THEN "exited" ELSE "running"
    /\ UNCHANGED <<source, checks, compiler, bytecode, stack_frames, result, results, log,
                   yields, last>>

Top == stack_frames[Len(stack_frames)]
Code(frame) == bytecode[frame.fn].fn.instructions
Literals(frame) == bytecode[frame.fn].fn.literals
Running == phase = "running" /\ stack_frames # <<>>
\* StackFrame::inst
HasInst == Top.ip < Len(Code(Top))
Inst == Code(Top)[Top.ip + 1]
At(op) == Running /\ HasInst /\ Inst.op = op

\* the process aborts
VmPanic ==
    /\ phase' = "panic"
    /\ UNCHANGED <<source, checks, compiler, bytecode, stack_frames, result, results, log,
                   yields, last>>

\* interpret returns r to run_coro
Returns(r) ==
    /\ result' = r
    /\ results' = Append(results, r)
    /\ phase' = CASE r.kind = "Suspend" -> "ready"
                  [] r.kind = "Finished" -> "finished"
                  [] OTHER -> "error"

Completed(op, val) ==
    [op |-> op, fi |-> Len(stack_frames), fn |-> Top.fn, ip |-> Top.ip, a |-> Inst.arg0,
     before |-> Top.stack, val |-> val]

\* the top frame goes on with `stack` at `ip`
Continues(stack, ip) ==
    /\ stack_frames' = [stack_frames EXCEPT ![Len(stack_frames)] =
                           [@ EXCEPT !.stack = stack, !.ip = ip]]
    /\ last' = Completed(Inst.op, NoVal)
    /\ UNCHANGED <<source, checks, phase, compiler, bytecode, result, results, log, yields>>

StepLoadLiteral ==
    /\ At("LoadLiteral")
    /\ IF Inst.arg0 < Len(Literals(Top))
       THEN Continues(Append(Top.stack, Literals(Top)[Inst.arg0 + 1]), Top.ip + 1)
       ELSE VmPanic

\* stack[idx] = value after the pop, idx = len - arg0 - 1 taken before it
\* store that writes one slot below the addressed one
store_one_below(stack, arg0) ==
    [PopVec(stack) EXCEPT ![Len(stack) - arg0 - 1] = stack[Len(stack)]]

store(stack, arg0) ==
    [PopVec(stack) EXCEPT ![Len(stack) - arg0] = stack[Len(stack)]]

StepStore ==
    /\ At("Store")
    /\ IF Inst.arg0 >= 1 /\ Inst.arg0 < Len(Top.stack)
       THEN Continues(store(Top.stack, Inst.arg0), Top.ip + 1)
       ELSE VmPanic

StepCopy ==
    /\ At("Copy")
    /\ IF Inst.arg0 < Len(Top.stack)
       THEN Continues(Append(Top.stack, Top.stack[Len(Top.stack) - Inst.arg0]), Top.ip + 1)
       ELSE VmPanic

StepDup ==
    /\ At("Dup")
    /\ IF Top.stack # <<>>
       THEN Continues(Top.stack \o [i \in 1..Inst.arg0 |-> Top.stack[Len(Top.stack)]],
                      Top.ip + 1)
       ELSE VmPanic

StepBinOp ==
    /\ Running /\ HasInst /\ Inst.op \in {"Add", "Sub", "Mul", "Div", "Lt"}
    /\ IF Len(Top.stack) < 2 THEN VmPanic
       ELSE LET rhs == Top.stack[Len(Top.stack)]
                lhs == Top.stack[Len(Top.stack) - 1]
                res == interpret_bin_op_str(Inst.op, lhs, rhs)
            IN IF res.ok
               THEN Continues(Append(SubSeq(Top.stack, 1, Len(Top.stack) - 2), res.v),
                              Top.ip + 1)
               ELSE VmPanic

StepJmp ==
    /\ At("Jmp")
    /\ Continues(Top.stack, Inst.arg0)

\* jf_target that jumps on a condition other than zero
jf_target_on_nonzero(cond, arg0, ip) == IF cond # F64(0) THEN arg0 ELSE ip + 1

jf_target(cond, arg0, ip) == IF cond = F64(0) THEN arg0 ELSE ip + 1

\* a Jf that is free to jump or to fall through
StepJf_either ==
    /\ At("Jf")
    /\ Top.stack # <<>>
    /\ \E target \in {Inst.arg0, Top.ip + 1} : Continues(PopVec(Top.stack), target)

StepJf ==
    /\ At("Jf")
    /\ IF Top.stack = <<>> THEN VmPanic
       ELSE LET cond == coerce_f64(Top.stack[Len(Top.stack)])
            IN IF cond.ok
               THEN Continues(PopVec(Top.stack), jf_target(cond.v, Inst.arg0, Top.ip))
               ELSE VmPanic

StepPop ==
    /\ At("Pop")
    /\ IF Inst.arg0 <= Len(Top.stack)
       THEN Continues(Resize(Top.stack, Len(Top.stack) - Inst.arg0, F64(0)), Top.ip + 1)
       ELSE VmPanic

\* replace_call_slots that keeps the slot of the callee's name
replace_call_slots_keep_name(stack, args, res) ==
    Append(Resize(stack, Len(stack) - args, F64(0)), res)

\* the caller's stack once the callee has produced res: the name and the
\* argument slots are dropped and res pushed
replace_call_slots(stack, args, res) ==
    Append(Resize(stack, Len(stack) - args - 1, F64(0)), res)

\* call_args that starts one slot too low: stack[len - argc - 1 .. len - 1]
call_args_from_name(stack, argc) == SubSeq(stack, Len(stack) - argc, Len(stack) - 1)

\* the arguments of Call argc: stack[len - argc ..]
call_args(stack, argc) == SubSeq(stack, Len(stack) - argc + 1, Len(stack))

StepCall ==
    /\ At("Call")
    /\ LET stack == Top.stack
           argc == Inst.arg0
       IN IF Len(stack) < argc + 1 THEN VmPanic
          ELSE LET args == call_args(stack, argc)
                   fname == stack[Len(stack) - argc]
               IN IF fname.k # "Str" THEN VmPanic
                  ELSE IF fname.s \notin DOMAIN bytecode
                  THEN /\ Returns(Err("Function name shall be a string"))
                       /\ UNCHANGED <<source, checks, compiler, bytecode, stack_frames,
                                      log, yields, last>>
                  ELSE IF bytecode[fname.s].kind = "User"
                  THEN /\ stack_frames' = Append(stack_frames,
                                                 StackFrame_new(fname.s, args))
                       /\ last' = Completed("CallPush", NoVal)
                       /\ UNCHANGED <<source, checks, phase, compiler, bytecode, result,
                                      results, log, yields>>
                  ELSE LET res == native_code(fname.s, args)
                       IN IF ~res.ok THEN VmPanic
                          ELSE /\ stack_frames' =
                                     [stack_frames EXCEPT ![Len(stack_frames)] =
                                         [@ EXCEPT !.stack =
                                                     replace_call_slots(stack, argc, res.v),
                                                   !.ip = @ + 1]]
                               /\ log' = Append(log, [name |-> fname.s, args |-> args])
                               /\ last' = Completed("Call", res.v)
                               /\ UNCHANGED <<source, checks, phase, compiler, bytecode,
                                              result, results, yields>>

\* ret_value that counts stack_pos from the bottom of the stack: stack[stack_pos]
ret_value_from_bottom(stack, stack_pos) == stack[stack_pos + 1]

\* the value return_fn reads: top_frame.stack[len - stack_pos - 1]
ret_value(stack, stack_pos) == stack[Len(stack) - stack_pos]

\* Vm::return_fn
return_fn(stack_pos, op) ==
    LET top_frame == Top
        rest == PopVec(stack_frames)
    IN IF Len(top_frame.stack) < stack_pos + 1
       THEN IF checks THEN VmPanic
            ELSE /\ Returns(Err("Stack underflow at last"))
                 /\ stack_frames' = rest
                 /\ UNCHANGED <<source, checks, compiler, bytecode, log, yields, last>>
       ELSE LET res == ret_value(top_frame.stack, stack_pos)
            IN IF rest = <<>>
               THEN /\ Returns(Finished(res))
                    /\ stack_frames' = rest
                    /\ last' = [op |-> op, fi |-> 1, fn |-> top_frame.fn,
                                ip |-> top_frame.ip, a |-> stack_pos,
                                before |-> top_frame.stack, val |-> res]
                    /\ UNCHANGED <<source, checks, compiler, bytecode, log, yields>>
               ELSE LET caller == rest[Len(rest)]
                    IN IF Len(caller.stack) < top_frame.args + 1 THEN VmPanic
                       ELSE /\ stack_frames' =
                                  [rest EXCEPT ![Len(rest)] =
                                      [@ EXCEPT !.stack = replace_call_slots(
                                                    caller.stack, top_frame.args, res),
                                                !.ip = @ + 1]]
                            /\ last' = [op |-> "Call", fi |-> Len(rest), fn |-> caller.fn,
                                        ip |-> caller.ip,
                                        a |-> Code(caller)[caller.ip + 1].arg0,
                                        before |-> caller.stack, val |-> res]
                            /\ UNCHANGED <<source, checks, phase, compiler, bytecode,
                                           result, results, log, yields>>

StepRet ==
    /\ At("Ret")
    /\ return_fn(Inst.arg0, "Ret")

\* ip is past the end of the code: return_fn(0)
StepEndOfCode ==
    /\ Running /\ ~HasInst
    /\ return_fn(0, "End")

\* yield_frame that steps over the instruction after the Yield
yield_frame_skip(frame) == [frame EXCEPT !.stack = PopVec(@), !.ip = @ + 2]

\* the frame after Yield: the top slot popped, ip past the Yield
yield_frame(frame) == [frame EXCEPT !.stack = PopVec(@), !.ip = @ + 1]

StepYield ==
    /\ At("Yield")
    /\ IF Top.stack = <<>>
       THEN /\ Returns(Err("Stack underflow"))
            /\ UNCHANGED <<source, checks, compiler, bytecode, stack_frames, log, yields,
                           last>>
       ELSE /\ Returns(Suspend(Top.stack[Len(Top.stack)]))
            /\ stack_frames' = [stack_frames EXCEPT ![Len(stack_frames)] = yield_frame(@)]
            /\ yields' = Append(yields, IF Inst.arg0 < Len(Top.stack)
                                        THEN Top.stack[Len(Top.stack) - Inst.arg0]
                                        ELSE NoVal)
            /\ last' = Completed("Yield", Top.stack[Len(Top.stack)])
            /\ UNCHANGED <<source, checks, compiler, bytecode, log>>

Next ==
    \/ Compile
    \/ ReadProgram
    \/ InitFn
    \/ Resume
    \/ StepLoadLiteral
    \/ StepStore
    \/ StepCopy
    \/ StepDup
    \/ StepBinOp
    \/ StepCall
    \/ StepJmp
    \/ StepJf
    \/ StepPop
    \/ StepRet
    \/ StepEndOfCode
    \/ StepYield

Spec == Init /\ [][Next]_vars

\* ------------------------------------------------------------------------
\* Program images written and read back (`-c` then `-r`): the program image
\* is the compiler's `funcs`, of at most MaxFns functions
\* ------------------------------------------------------------------------
MaxFns == 2

Ins(op, arg0) == [op |-> op, arg0 |-> arg0]

FnImage(args, literals, instructions) ==
    [args |-> args, literals |-> literals, instructions |-> instructions]

FnImages ==
    {FnImage(<<>>, <<>>, <<>>),
     FnImage(<<>>, <<F64(1)>>, <<Ins("LoadLiteral", 0)>>),
     FnImage(<<"a">>, <<>>, <<Ins("Copy", 0), Ins("Ret", 0)>>),
     FnImage(<<"a", "b">>, <<I64(1), I64(-2), I64(300)>>,
             <<Ins("Copy", 1), Ins("Copy", 1), Ins("Add", 0), Ins("Sub", 0),
               Ins("Mul", 0), Ins("Div", 0), Ins("Lt", 0), Ins("Ret", 255)>>),
     FnImage(<<>>, <<StrV("print"), StrV(""), StrV("hi ")>>,
             <<Ins("LoadLiteral", 0), Ins("LoadLiteral", 2), Ins("Call", 1),
               Ins("Pop", 1)>>),
     FnImage(<<"n">>, <<Rat(-3, 2), Rat(1, 4), F64(0), F64(255)>>,
             <<Ins("Jmp", 2), Ins("Jf", 255), Ins("Dup", 3), Ins("Store", 1),
               Ins("Yield", 0)>>),
     FnImage(<<"x", "x">>, <<F64(1), F64(1), I64(1), StrV("x")>>, <<Ins("Yield", 7)>>),
     FnImage(<<"">>, <<Rat(1, 0), Rat(-1, 0), Rat(0, 0), I64(0), I64(-70000)>>,
             <<Ins("Pop", 0), Ins("Pop", 0)>>)}

ImageNames == {"main", "f", "print"}

Images ==
    UNION {[names -> FnImages] :
             names \in {S \in SUBSET ImageNames : Cardinality(S) <= MaxFns}}

NoSource == [loop |-> FALSE, p |-> 0, s |-> 0, e |-> 0]

InitImage ==
    /\ source = NoSource
    /\ checks = FALSE
    /\ phase = "compiled"
    /\ compiler \in {[Compiler_new(checks) EXCEPT !.funcs = P] : P \in Images}
    /\ bytecode = <<>>
    /\ stack_frames = <<>>
    /\ result = NoRes
    /\ results = <<>>
    /\ log = <<>>
    /\ yields = <<>>
    /\ last = NoLast

SpecImage == InitImage /\ [][ReadProgram]_vars

\* ------------------------------------------------------------------------
\* Running a bytecode file (`-r`): the file holds any program image, not
\* only what the compiler writes
\* ------------------------------------------------------------------------
BinOps == {"Add", "Sub", "Mul", "Div", "Lt"}

Operands ==
    {F64(2), F64(0), Rat(-3, 2), I64(3), I64(0), I64(-7), StrV("a"), StrV("hi ")}

\* main: lhs op rhs
ArithImage(op, lhs, rhs) ==
    [main |-> FnImage(<<>>, <<lhs, rhs>>,
                      <<Ins("LoadLiteral", 0), Ins("LoadLiteral", 1), Ins(op, 0)>>)]

\* main: one literal loaded, then one instruction
OneInstImage(literal, inst) ==
    [main |-> FnImage(<<>>, <<literal>>, <<Ins("LoadLiteral", 0), inst>>)]

\* main calls f(2), a user function, and goes through every other opcode
TourImage ==
    [main |-> FnImage(<<>>, <<StrV("f"), I64(2), I64(0), StrV("print")>>,
                      <<Ins("LoadLiteral", 0), Ins("LoadLiteral", 1), Ins("Call", 1),
                        Ins("Dup", 1), Ins("Store", 1), Ins("LoadLiteral", 2),
                        Ins("Jf", 8), Ins("Jmp", 7), Ins("Jmp", 9), Ins("Yield", 0),
                        Ins("LoadLiteral", 3), Ins("LoadLiteral", 1), Ins("Call", 1),
                        Ins("Pop", 0), Ins("Ret", 0)>>),
     f |-> FnImage(<<"a">>, <<I64(1)>>,
                   <<Ins("Copy", 0), Ins("LoadLiteral", 0), Ins("Add", 0)>>)]

\* main: Jf over one instruction on the condition cond
JfImage(cond) ==
    [main |-> FnImage(<<>>, <<cond, I64(5)>>,
                      <<Ins("LoadLiteral", 1), Ins("LoadLiteral", 0), Ins("Jf", 4),
                        Ins("LoadLiteral", 0), Ins("Ret", 0)>>)]

\* main returns f(2) after print(2); f(a) returns a + 1; nothing yields
CallerImage ==
    [main |-> FnImage(<<>>, <<StrV("f"), I64(2), StrV("print")>>,
                      <<Ins("LoadLiteral", 0), Ins("LoadLiteral", 1), Ins("Call", 1),
                        Ins("LoadLiteral", 2), Ins("LoadLiteral", 1), Ins("Call", 1),
                        Ins("Pop", 1), Ins("Ret", 0)>>),
     f |-> FnImage(<<"a">>, <<I64(1)>>,
                   <<Ins("Copy", 0), Ins("LoadLiteral", 0), Ins("Add", 0), Ins("Ret", 0)>>)]

\* main returns f(2); f(a) yields a and then returns a
YieldingCalleeImage ==
    [main |-> FnImage(<<>>, <<StrV("f"), I64(2)>>,
                      <<Ins("LoadLiteral", 0), Ins("LoadLiteral", 1), Ins("Call", 1),
                        Ins("Ret", 0)>>),
     f |-> FnImage(<<"a">>, <<>>,
                   <<Ins("Copy", 0), Ins("Yield", 0), Ins("Copy", 0), Ins("Ret", 0)>>)]

VmImages ==
    {ArithImage(op, lhs, rhs) : op \in BinOps, lhs \in Operands, rhs \in Operands}
    \cup {JfImage(cond) : cond \in Operands \cup {Rat(1, 4), Rat(0, 0), Rat(1, 0)}}
    \cup {OneInstImage(StrV("nofn"), Ins("Call", 0)),
          OneInstImage(F64(1), Ins("Call", 0)),
          OneInstImage(I64(1), Ins("Call", 0)),
          OneInstImage(StrV("print"), Ins("Call", 1)),
          OneInstImage(F64(1), Ins("Copy", 1)),
          OneInstImage(F64(1), Ins("Store", 1)),
          OneInstImage(F64(1), Ins("Ret", 1)),
          OneInstImage(F64(1), Ins("Add", 0)),
          TourImage, CallerImage, YieldingCalleeImage}

InitVm ==
    /\ source = NoSource
    /\ checks \in BOOLEAN
    /\ phase = "compiled"
    /\ compiler \in {[Compiler_new(checks) EXCEPT !.funcs = P] : P \in VmImages}
    /\ bytecode = <<>>
    /\ stack_frames = <<>>
    /\ result = NoRes
    /\ results = <<>>
    /\ log = <<>>
    /\ yields = <<>>
    /\ last = NoLast

NextVm ==
    \/ ReadProgram
    \/ InitFn
    \/ Resume
    \/ StepLoadLiteral
    \/ StepStore
    \/ StepCopy
    \/ StepDup
    \/ StepBinOp
    \/ StepCall
    \/ StepJmp
    \/ StepJf
    \/ StepPop
    \/ StepRet
    \/ StepEndOfCode
    \/ StepYield

SpecVm == InitVm /\ [][NextVm]_vars

\* ------------------------------------------------------------------------
\* A host that drives the VM through init_fn and interpret: it may start a
\* function by name while at most MaxFrames - 1 frames are suspended
\* ------------------------------------------------------------------------
MaxFrames == 2

HostNames == {"main", "f", "print", "nofn"}
HostArgs == {<<>>, <<I64(2)>>, <<StrV("a"), F64(2)>>}

\* what init_fn returns: Ok(()) or the Err of a native or unknown name
init_fn_result(fn_name) ==
    IF fn_name \notin DOMAIN bytecode THEN Err("Function was not found")
    ELSE IF bytecode[fn_name].kind = "Native"
    THEN Err("Native function cannot be called as a coroutine")
    ELSE NoRes

\* vm.init_fn(fn_name, args) called by the host; `last` records the call
HostInitFn ==
    /\ phase \in {"loaded", "ready"}
    /\ Len(stack_frames) < MaxFrames
    /\ \E fn_name \in HostNames, args \in HostArgs :
          /\ stack_frames' = init_fn(stack_frames, fn_name, args)
          /\ result' = init_fn_result(fn_name)
          /\ phase' = IF init_fn_result(fn_name).kind = "Err" THEN "error" ELSE "ready"
          /\ last' = [NoLast EXCEPT !.op = "init_fn", !.fn = fn_name, !.before = args,
                                    !.fi = Len(stack_frames)]
    /\ UNCHANGED <<source, checks, compiler, bytecode, results, log, yields>>

NextHost ==
    \/ ReadProgram
    \/ HostInitFn
    \/ Resume
    \/ StepLoadLiteral
    \/ StepStore
    \/ StepCopy
    \/ StepDup
    \/ StepBinOp
    \/ StepCall
    \/ StepJmp
    \/ StepJf
    \/ StepPop
    \/ StepRet
    \/ StepEndOfCode
    \/ StepYield

SpecHost == InitVm /\ [][NextHost]_vars

\* ------------------------------------------------------------------------
\* A host that runs one function to completion with run_fn
\* ------------------------------------------------------------------------
\* Ok(val) of run_fn
RunOk(v) == [kind |-> "Ok", val |-> v]

\* run_fn that hands a yielded value out as the function's value
run_fn_result_of_any(r) ==
    IF r.kind \in {"Finished", "Suspend"} THEN RunOk(r.val) ELSE r

\* run_fn: the match on what interpret returned (`?` passes an Err on)
run_fn_result(r) ==
    CASE r.kind = "Finished" -> RunOk(r.val)
      [] r.kind = "Suspend" -> Err("Yielded at toplevel")
      [] OTHER -> r

\* vm.run_fn(fn_name, args) up to its call of interpret: a native is run at
\* once, a user function gets its frame
RunFn ==
    /\ phase = "loaded"
    /\ \E fn_name \in HostNames, args \in HostArgs :
          /\ last' = [NoLast EXCEPT !.op = "run_fn", !.fn = fn_name, !.before = args]
          /\ IF fn_name \notin DOMAIN bytecode
             THEN /\ result' = Err("Function was not found")
                  /\ phase' = "returned"
                  /\ UNCHANGED <<stack_frames, log>>
             ELSE IF bytecode[fn_name].kind = "Native"
             THEN /\ result' = IF native_code(fn_name, args).ok
                               THEN RunOk(native_code(fn_name, args).v)
                               ELSE result
                  /\ phase' = IF native_code(fn_name, args).ok THEN "returned" ELSE "panic"
                  /\ log' = IF native_code(fn_name, args).ok
                            THEN Append(log, [name |-> fn_name, args |-> args])
                            ELSE log
                  /\ UNCHANGED stack_frames
             ELSE /\ stack_frames' = Append(stack_frames, StackFrame_new(fn_name, args))
                  /\ phase' = "running"
                  /\ UNCHANGED <<result, log>>
    /\ UNCHANGED <<source, checks, compiler, bytecode, results, yields>>

\* run_fn returns what it makes of the result of interpret
RunFnReturns ==
    /\ phase \in {"finished", "ready", "error"}
    /\ result' = run_fn_result(result)
    /\ phase' = "returned"
    /\ UNCHANGED <<source, checks, compiler, bytecode, stack_frames, results, log, yields,
                   last>>

NextRunFn ==
    \/ ReadProgram
    \/ RunFn
    \/ RunFnReturns
    \/ StepLoadLiteral
    \/ StepStore
    \/ StepCopy
    \/ StepDup
    \/ StepBinOp
    \/ StepCall
    \/ StepJmp
    \/ StepJf
    \/ StepPop
    \/ StepRet
    \/ StepEndOfCode
    \/ StepYield

SpecRunFn == InitVm /\ [][NextRunFn]_vars

\* ------------------------------------------------------------------------
\* Literal interning on its own: values interned one after the other into
\* the pool of one function, of at most MaxPool entries
\* ------------------------------------------------------------------------
MaxPool == 4

\* values of number and string literals
LiteralValues == {F64(0), F64(1), F64(2), Rat(1, 2), StrV(""), StrV("a"), StrV("hi ")}

InitIntern ==
    /\ source = NoSource
    /\ checks \in BOOLEAN
    /\ phase = "source"
    /\ compiler = Compiler_new(checks)
    /\ bytecode = <<>>
    /\ stack_frames = <<>>
    /\ result = NoRes
    /\ results = <<>>
    /\ log = <<>>
    /\ yields = <<>>
    /\ last = NoLast

\* self.add_literal(value); `last` records the value and the index returned
Intern ==
    /\ phase = "source"
    /\ \E value \in LiteralValues :
          /\ Len(add_literal(compiler, value).c.literals) <= MaxPool
          /\ compiler' = add_literal(compiler, value).c
          /\ last' = [NoLast EXCEPT !.op = "add_literal", !.val = value,
                                    !.a = add_literal(compiler, value).r]
    /\ UNCHANGED <<source, checks, phase, bytecode, stack_frames, result, results, log,
                   yields>>

SpecIntern == InitIntern /\ [][Intern]_vars

\* ------------------------------------------------------------------------
\* Compilation of a long main, one statement of compile_stmts at a time:
\* up to MaxPadding statements `2;` followed by one of Tails
\* ------------------------------------------------------------------------
MaxPadding == 256

Padding == ExprS(NumLiteral(2))

Tails ==
    { \* for i in 0 to 1 { print(i); }
      << For("i", NumLiteral(0), NumLiteral(1), << PrintS(Ident("i")) >>) >>,
      \* var y = 3; print(y);
      << VarDef("y", NumLiteral(3)), PrintS(Ident("y")) >>,
      \* if 3 < 2 { 4 } else { 5 }
      << ExprS(IfElseE(LtE(NumLiteral(3), NumLiteral(2)),
                       << ExprS(NumLiteral(4)) >>, << ExprS(NumLiteral(5)) >>)) >> }

\* one more iteration of the loop of compile_stmts, on the statement `2;`
CompilePadding ==
    /\ phase = "source"
    /\ Len(compiler.instructions) < MaxPadding
    /\ compiler' = compile_stmt(compiler, Padding, None).c
    /\ UNCHANGED <<source, checks, phase, bytecode, stack_frames, result, results, log,
                   yields, last>>

\* the remaining statements of the program and the end of Compiler::compile
CompileTail ==
    /\ phase = "source"
    /\ \E tail \in Tails : compiler' = compile(compiler, tail)
    /\ phase' = CASE compiler'.err = "ok" -> "compiled"
                  [] compiler'.err = "panic" -> "panic"
                  [] OTHER -> "compile_error"
    /\ UNCHANGED <<source, checks, bytecode, stack_frames, result, results, log, yields,
                   last>>

SpecLong == InitIntern /\ [][CompilePadding \/ CompileTail]_vars

\* ------------------------------------------------------------------------
\* Compilation of main one statement of compile_stmts at a time; `last`
\* holds the number of statements compiled (ip) and last_result (a)
\* ------------------------------------------------------------------------
\* the statements of main compiled so far, last_result and the next statement
Compiled == last.ip
LastResult == IF last.op = "none" THEN None ELSE last.a
NextStmt == ProgramOf(source)[Compiled + 1]

\* one iteration of the `for stmt in stmts` loop of compile_stmts
CompileStmt ==
    /\ phase = "source"
    /\ IsOk(compiler)
    /\ Compiled < Len(ProgramOf(source))
    /\ compiler' = compile_stmt(compiler, NextStmt, LastResult).c
    /\ last' = [NoLast EXCEPT !.op = NextStmt.t, !.ip = Compiled + 1,
                              !.a = compile_stmt(compiler, NextStmt, LastResult).r]
    /\ UNCHANGED <<source, checks, phase, bytecode, stack_frames, result, results, log,
                   yields>>

\* the loop has ended or a statement has failed: the rest of
\* compile_stmts_or_zero and of Compiler::compile
CompileEnd ==
    /\ phase = "source"
    /\ ~IsOk(compiler) \/ Compiled = Len(ProgramOf(source))
    /\ compiler' = add_fn(zero_if_none([c |-> compiler, r |-> LastResult]).c, "main", <<>>)
    /\ phase' = CASE compiler'.err = "ok" -> "compiled"
                  [] compiler'.err = "panic" -> "panic"
                  [] OTHER -> "compile_error"
    /\ UNCHANGED <<source, checks, bytecode, stack_frames, result, results, log, yields,
                   last>>

SpecStmts == Init /\ [][CompileStmt \/ CompileEnd]_vars

\* ------------------------------------------------------------------------
\* Properties
\* ------------------------------------------------------------------------
\* the instruction at ip of function fn as the compiler emitted it
Emitted(fn, ip) == compiler.funcs[fn].instructions[ip + 1]

\* `last` is an instruction completed in a frame that is still there (a Call
\* whose callee is a user function completes when the callee returns)
LastInFrame == last.op \notin {"none", "CallPush", "Ret", "End"} /\ last.fi <= Len(stack_frames)

\* the for-loops of function fn whose code holds address ip, and the
\* innermost of them
LoopsOf(fn) == {compiler.funcs[fn].loops[k] : k \in 1..Len(compiler.funcs[fn].loops)}
LoopsAt(fn, ip) == {l \in LoopsOf(fn) : l.check <= ip /\ ip < l.exit}
Innermost(fn, ip) ==
    CHOOSE l \in LoopsAt(fn, ip) : \A m \in LoopsAt(fn, ip) : m.check <= l.check

\* the calls of print that print the values of vals, in order
Printed(vals) == [k \in 1..Len(vals) |-> [name |-> "print", args |-> <<vals[k]>>]]
\* the values s, s + 1, ... below e
Values(s, e) == [k \in 1..(IF e > s THEN e - s ELSE 0) |-> F64(s + k - 1)]
\* seq without its element at index i
RemoveAt(seq, i) == SubSeq(seq, 1, i - 1) \o SubSeq(seq, i + 1, Len(seq))

\* C1: after every instruction the VM completes in a frame, the depth of that
\* frame's value stack equals the length target_stack had right after the
\* compiler emitted the instruction.
C1_ShadowDepthIsRuntimeDepth ==
    LastInFrame => Len(stack_frames[last.fi].stack) = Emitted(last.fn, last.ip).post

\* C2: a program `for i in s to e { print(i); }`, alone or after `var i = 7;`,
\* has printed exactly s, s + 1, ..., e - 1 in this order when it finishes
\* (nothing when s >= e): the body ran once per value and read that value.
C2_ForRunsBodyOncePerValue ==
    (source.loop /\ source.p \in {1, 2} /\ phase = "finished")
        => log = Printed(Values(source.s, source.e))

\* C3: a Yield executed in the innermost of k >= 1 frames keeps the number of
\* frames and every outer frame as it is and advances the innermost frame's
\* ip by 1; the frames are untouched while the VM is suspended, and when
\* interpret is entered again the instruction to execute is the one after
\* the Yield in that same frame.
C3_YieldKeepsFramesAndResumesAfter ==
    [][/\ (At("Yield") /\ Top.stack # <<>>) =>
              /\ Len(stack_frames') = Len(stack_frames)
              /\ \A i \in 1..(Len(stack_frames) - 1) : stack_frames'[i] = stack_frames[i]
              /\ Top'.fn = Top.fn
              /\ Top'.ip = Top.ip + 1
       /\ (phase = "ready" /\ last.op = "Yield") => stack_frames' = stack_frames
       /\ (phase = "running" /\ last.op = "Yield") =>
              /\ Len(stack_frames) = last.fi
              /\ Top.fn = last.fn
              /\ Top.ip = last.ip + 1]_vars

\* the VM is resumed after a Yield executed in the innermost of three frames
C3_Witness ==
    phase = "running" /\ last.op = "Yield" /\ Len(stack_frames) = 3
    /\ Top.ip = last.ip + 1

\* C4: `Yield a` with a < depth returns Suspend(v) where v is the slot at
\* from-top offset a of the frame's stack, and removes exactly that slot.
C4_YieldSurfacesDesignatedSlot ==
    (last.op = "Yield" /\ last.a < Len(last.before)) =>
        /\ result = Suspend(last.before[Len(last.before) - last.a])
        /\ stack_frames[last.fi].stack = RemoveAt(last.before, Len(last.before) - last.a)

\* C5: the results of the resumes so far are Suspend(v1), ..., Suspend(vn) for
\* the values v1..vn the executed yield statements designate, in this order,
\* followed, once the entry function has returned, by one Finished(r) with r
\* the slot the return designates; no Finished comes earlier.
C5_SuspendsInOrderThenFinished ==
    /\ Len(results) <= Len(yields) + 1
    /\ \A i \in 1..Len(results) :
          IF i <= Len(yields) THEN results[i] = Suspend(yields[i])
          ELSE /\ phase = "finished"
               /\ results[i] = Finished(last.before[Len(last.before) - last.a])

\* C6: once a Call argc has completed, by the native's return or by the
\* return of the user function's frame, the caller's stack is its stack
\* before the Call with the top argc + 1 slots replaced by the return value,
\* and the caller's ip is the Call's ip plus 1.
C6_CallReplacesNameAndArgs ==
    (last.op = "Call" /\ last.fi <= Len(stack_frames)) =>
        /\ Len(last.before) >= last.a + 1
        /\ stack_frames[last.fi].stack =
               Append(SubSeq(last.before, 1, Len(last.before) - last.a - 1), last.val)
        /\ stack_frames[last.fi].ip = last.ip + 1
        /\ stack_frames[last.fi].fn = last.fn

\* a user function called with two arguments has returned into a caller
\* that holds slots below the callee's name
C6_Witness ==
    /\ last.op = "Call" /\ last.a = 2 /\ Len(last.before) > 3
    /\ bytecode[last.before[Len(last.before) - 2].s].kind = "User"
    /\ Len(stack_frames) = last.fi

\* the Call at the top frame's ip names a user function
CallsUser ==
    /\ At("Call")
    /\ Len(Top.stack) >= Inst.arg0 + 1
    /\ Top.stack[Len(Top.stack) - Inst.arg0].k = "Str"
    /\ Top.stack[Len(Top.stack) - Inst.arg0].s \in DOMAIN bytecode
    /\ bytecode[Top.stack[Len(Top.stack) - Inst.arg0].s].kind = "User"

\* C7: a Call argc of a user function pushes exactly one frame, of the
\* callee, whose stack is the argc argument values in call order and whose ip
\* is 0, and leaves every existing frame as it is; a frame below the
\* innermost one rests at a Call, and its ip changes only in the step that
\* removes the frame directly above it, by 1.
C7_UserCallPushesOneFrame ==
    [][/\ CallsUser =>
              /\ Len(stack_frames') = Len(stack_frames) + 1
              /\ SubSeq(stack_frames', 1, Len(stack_frames)) = stack_frames
              /\ Top'.fn = Top.stack[Len(Top.stack) - Inst.arg0].s
              /\ Top'.stack = [k \in 1..Inst.arg0 |->
                                  Top.stack[Len(Top.stack) - Inst.arg0 + k]]
              /\ Top'.ip = 0
       /\ \A i \in 1..(Len(stack_frames) - 1) :
              /\ stack_frames[i].ip < Len(Code(stack_frames[i]))
              /\ Code(stack_frames[i])[stack_frames[i].ip + 1].op = "Call"
              /\ i < Len(stack_frames') => stack_frames'[i].ip = stack_frames[i].ip
              /\ (i = Len(stack_frames') /\ i = Len(stack_frames) - 1 /\ phase' = "running")
                     => stack_frames'[i].ip = stack_frames[i].ip + 1]_vars

\* a user function called with two arguments from a frame that is itself a
\* callee has just got its frame
C7_Witness ==
    /\ last.op = "CallPush" /\ last.a = 2
    /\ Len(stack_frames) = last.fi + 1
    /\ Top.ip = 0 /\ Len(Top.stack) = 2
    /\ stack_frames[last.fi].ip = last.ip

\* C8: when Ret a executes in the only frame, or that frame's ip is past the
\* end of its code (a = 0), and the frame's stack has a slot at from-top
\* offset a, interpret returns Finished(v) with v that slot, and no frame is
\* left.
C8_LastReturnFinishes ==
    (last.op \in {"Ret", "End"}) =>
        /\ last.op = "End" => last.a = 0
        /\ result = Finished(last.before[Len(last.before) - last.a])
        /\ results[Len(results)] = result
        /\ phase = "finished"
        /\ stack_frames = <<>>

\* the program finished by a Ret that designates a slot below the top
C8_Witness == last.op = "Ret" /\ last.a > 0 /\ phase = "finished" /\ Len(last.before) > 2

\* the instruction completed last is the Jmp of a break / of a continue
AfterBreak ==
    last.op = "Jmp" /\ last.fi = Len(stack_frames) /\ Emitted(last.fn, last.ip).tag = "break"
AfterContinue ==
    /\ last.op = "Jmp" /\ last.fi = Len(stack_frames)
    /\ Emitted(last.fn, last.ip).tag = "continue_jmp"

\* the prints of `for i in s to e { for j in 0 to e { if j > 0 { break; }
\* print(j); } print(i); }`: 0 and i for every i of s .. e - 1
NestedBreakLog(s, e) ==
    [k \in 1..(2 * Len(Values(s, e))) |->
        [name |-> "print",
         args |-> << IF k % 2 = 1 THEN F64(0) ELSE Values(s, e)[k \div 2] >>]]

\* C9: the Jmp of a break lands on the first instruction after the innermost
\* for-loop around it with the loop variable on top of the stack, which is
\* the depth the loop's exit check leaves when it ends the loop; in nested
\* loops the inner break ends the inner loop only: the outer loop goes on
\* with all its iterations.
C9_BreakLeavesInnermostLoop ==
    /\ AfterBreak =>
           /\ LoopsAt(last.fn, last.ip) # {}
           /\ Top.ip = Innermost(last.fn, last.ip).exit
           /\ Len(Top.stack) = Innermost(last.fn, last.ip).lv + 1
    /\ \A l \in (IF LastInFrame THEN LoopsOf(last.fn) ELSE {}) :
           (last.op = "Jf" /\ last.ip = l.check + 3 /\ last.fi = Len(stack_frames)
            /\ Top.ip = l.exit) => Len(Top.stack) = l.lv + 1
    /\ (source.loop /\ source.p = 3 /\ phase = "finished")
           => log = Printed(Values(source.s, Min({source.e, 1})))
    /\ (source.loop /\ source.p = 5 /\ phase = "finished")
           => log = NestedBreakLog(source.s, source.e)

\* C10: the Jmp of a continue lands on the increment sequence of the
\* innermost for-loop around it; whenever control is there, after a continue
\* or after the end of the body, the stack depth is the one for which the
\* sequence's Copy reads the loop variable; its Store leaves the loop
\* variable greater by 1 and its Jmp goes to the exit check with the loop
\* variable on top.
C10_ContinueReachesIncrement ==
    /\ AfterContinue =>
           /\ LoopsAt(last.fn, last.ip) # {}
           /\ Top.ip = Innermost(last.fn, last.ip).pad
    /\ \A l \in (IF Running THEN LoopsOf(Top.fn) ELSE {}) :
           Top.ip = l.pad =>
               /\ Inst.op = "Copy"
               /\ Len(Top.stack) - Inst.arg0 - 1 = l.lv
    /\ \A l \in (IF LastInFrame /\ last.fi = Len(stack_frames) THEN LoopsOf(last.fn)
                 ELSE {}) :
           /\ (last.op = "Store" /\ last.ip = l.pad + 3) =>
                  Top.stack[l.lv + 1] = op_f64("Add", last.before[l.lv + 1], F64(1))
           /\ (last.op = "Jmp" /\ last.ip = l.pad + 5) =>
                  /\ Top.ip = l.check
                  /\ Len(Top.stack) = l.lv + 1

\* the user functions of a loaded function table
UserFuncs(funcs) == [n \in {m \in DOMAIN funcs : funcs[m].kind = "User"} |-> funcs[n].fn]

\* C11: for every program image P, writing P with the compiler's serializer
\* and reading the bytes back succeeds and yields user functions equal to P:
\* the same function names, each with the same args, literals and
\* instructions in the same order
C11_SerializeRoundTrips ==
    /\ phase \in {"compiled", "loaded"}
    /\ phase = "loaded" =>
          UserFuncs(bytecode) = [n \in DOMAIN compiler.funcs |-> FnByteCode(compiler.funcs[n])]

\* an image of two functions was read back, one of them with literals of
\* the three kinds and an immediate of 255
C11_Witness ==
    /\ phase = "loaded"
    /\ Cardinality(DOMAIN compiler.funcs) = 2
    /\ \E n \in DOMAIN bytecode :
          /\ bytecode[n].kind = "User"
          /\ {"F64", "I64", "Str"} \subseteq
                {bytecode[n].fn.literals[i].k : i \in DOMAIN bytecode[n].fn.literals}
    /\ \E n \in DOMAIN bytecode :
          \E i \in DOMAIN bytecode[n].fn.instructions :
             bytecode[n].fn.instructions[i].arg0 = 255

\* C12: after loading, the function table holds every host native and every
\* user function of the image; a name that is both is the user function, so
\* a Call of that name pushes a frame of the user function and the native is
\* not invoked
C12_UserFunctionsOverrideNatives ==
    /\ [](bytecode # <<>> =>
            /\ DOMAIN bytecode = NativeNames \cup DOMAIN compiler.funcs
            /\ \A n \in DOMAIN compiler.funcs :
                   bytecode[n] = [kind |-> "User", fn |-> FnByteCode(compiler.funcs[n])]
            /\ \A n \in NativeNames \ DOMAIN compiler.funcs :
                   bytecode[n].kind = "Native")
    /\ [][(/\ At("Call")
           /\ Len(Top.stack) >= Inst.arg0 + 1
           /\ Top.stack[Len(Top.stack) - Inst.arg0].k = "Str"
           /\ Top.stack[Len(Top.stack) - Inst.arg0].s \in DOMAIN compiler.funcs)
              => /\ Len(stack_frames') = Len(stack_frames) + 1
                 /\ Top'.fn = Top.stack[Len(Top.stack) - Inst.arg0].s
                 /\ Top'.ip = 0
                 /\ log' = log]_vars

\* the user function print, which shadows the native print, has just been
\* called and has got its frame
C12_Witness ==
    /\ last.op = "CallPush"
    /\ "print" \in NativeNames
    /\ Top.fn = "print"
    /\ bytecode["print"].kind = "User"
    /\ bytecode["dbg"].kind = "Native"

\* a break or continue of the statements that no for-loop of the same
\* function body encloses (in_loop: the statements are inside such a loop)
RECURSIVE StrayInStmts(_, _)
RECURSIVE StrayInExpr(_, _)
StrayInStmts(stmts, in_loop) ==
    \E i \in DOMAIN stmts :
        CASE stmts[i].t \in {"Break", "Continue"} -> ~in_loop
          [] stmts[i].t = "For" ->
               \/ StrayInExpr(stmts[i].start, in_loop)
               \/ StrayInExpr(stmts[i].end, in_loop)
               \/ StrayInStmts(stmts[i].stmts, TRUE)
          [] stmts[i].t = "FnDef" -> StrayInStmts(stmts[i].stmts, FALSE)
          [] OTHER -> StrayInExpr(stmts[i].ex, in_loop)

StrayInExpr(ex, in_loop) ==
    CASE ex.t = "If" ->
           \/ StrayInExpr(ex.cond, in_loop)
           \/ StrayInStmts(ex.true_branch, in_loop)
           \/ StrayInStmts(ex.false_branch, in_loop)
      [] ex.t = "FnInvoke" -> \E i \in DOMAIN ex.args : StrayInExpr(ex.args[i], in_loop)
      [] ex.t \in {"Add", "Sub", "Mul", "Div", "Gt", "Lt"} ->
           StrayInExpr(ex.lhs, in_loop) \/ StrayInExpr(ex.rhs, in_loop)
      [] OTHER -> FALSE

\* the program has a break or continue outside the for-loops of its own
\* function body
HasStray == StrayInStmts(ProgramOf(source), FALSE)

\* the Jmp and Jf immediates of every function of a finished compilation
JumpTargets(fn) ==
    {compiler.funcs[fn].instructions[i].arg0 :
        i \in {j \in DOMAIN compiler.funcs[fn].instructions :
                  compiler.funcs[fn].instructions[j].op \in {"Jmp", "Jf"}}}

C14_LoadLiteralIndexesItsLiteral ==
    compiler.err = "ok" =>
        \A fn \in DOMAIN compiler.funcs :
            \A i \in DOMAIN compiler.funcs[fn].instructions :
                compiler.funcs[fn].instructions[i].op = "LoadLiteral" =>
                    /\ compiler.funcs[fn].instructions[i].arg0 < Len(compiler.funcs[fn].literals)
                    /\ compiler.funcs[fn].literals[compiler.funcs[fn].instructions[i].arg0 + 1]
                          = compiler.funcs[fn].instructions[i].lit

\* C15: whenever a Ret or a Yield is about to execute, its immediate is at
\* most the depth of the frame's stack minus one: the slot it addresses
\* exists
C15_RetYieldAddressExistingSlot ==
    (At("Ret") \/ At("Yield")) => Inst.arg0 <= Len(Top.stack) - 1

\* C16: the shadow stack holds at most one slot tagged Local(name) for any
\* name: no two different slots of the compiler's shadow stack are locals of
\* the same name
C16_LocalNeverDuplicated ==
    \A i, j \in DOMAIN compiler.target_stack :
        (/\ compiler.target_stack[i].t = "Local"
         /\ compiler.target_stack[j].t = "Local"
         /\ compiler.target_stack[i].name = compiler.target_stack[j].name) => i = j

\* C17: compiling a program that has a break or continue outside the
\* for-loops of its own function body fails with a compile error, so that
\* nothing is patched for it: once compilation has run, the program is in
\* the compile-error state and no function has been produced
C17_StrayBreakContinueFailsCompile ==
    (phase # "source" /\ HasStray) =>
        /\ phase = "compile_error"
        /\ compiler.err = "compile_error"

\* the names a statement leaves bound for the statements after it
BoundAfter(stmt, bound) ==
    CASE stmt.t = "VarDef" -> bound \cup {stmt.name}
      [] stmt.t = "For" -> bound \cup {stmt.loop_var}
      [] OTHER -> bound

RECURSIVE UnboundInStmts(_, _, _), UnboundInExpr(_, _)

\* statements i.. of stmts read or assign a name that is not bound at that
\* point: bound holds the parameters and the locals defined so far in the
\* function body; a function body starts from its parameters alone
UnboundInStmts(stmts, i, bound) ==
    IF i > Len(stmts) THEN FALSE
    ELSE \/ CASE stmts[i].t = "VarAssign" ->
                    UnboundInExpr(stmts[i].ex, bound) \/ stmts[i].name \notin bound
               [] stmts[i].t = "For" ->
                    \/ UnboundInExpr(stmts[i].start, bound)
                    \/ UnboundInExpr(stmts[i].end, bound)
                    \/ UnboundInStmts(stmts[i].stmts, 1, bound \cup {stmts[i].loop_var})
               [] stmts[i].t = "FnDef" ->
                    UnboundInStmts(stmts[i].stmts, 1,
                                   {stmts[i].args[k] : k \in DOMAIN stmts[i].args})
               [] stmts[i].t \in {"Break", "Continue"} -> FALSE
               [] OTHER -> UnboundInExpr(stmts[i].ex, bound)
         \/ UnboundInStmts(stmts, i + 1, BoundAfter(stmts[i], bound))

UnboundInExpr(ex, bound) ==
    CASE ex.t = "Ident" -> ex.name \notin bound
      [] ex.t = "If" ->
           \/ UnboundInExpr(ex.cond, bound)
           \/ UnboundInStmts(ex.true_branch, 1, bound)
           \/ UnboundInStmts(ex.false_branch, 1, bound)
      [] ex.t = "FnInvoke" -> \E i \in DOMAIN ex.args : UnboundInExpr(ex.args[i], bound)
      [] ex.t \in {"Add", "Sub", "Mul", "Div", "Gt", "Lt"} ->
           UnboundInExpr(ex.lhs, bound) \/ UnboundInExpr(ex.rhs, bound)
      [] OTHER -> FALSE

HasUnbound == UnboundInStmts(ProgramOf(source), 1, {})

\* a local of the loop body is read after an if whose branch leaves the loop
DropsBinding == source.loop /\ source.p \in {19, 20}

\* C18: a program that reads or assigns a name with no Local binding in the
\* function being compiled fails with a compile error and nothing is emitted
\* for it (no function is produced, so no Copy or Store); names of the
\* enclosing code do not count as bound inside a function body. Programs
\* whose names are all bound where they are used do not fail, unless a break
\* or continue in an if-branch has dropped the binding (C35).
C18_UnboundNameFailsCompile ==
    (phase # "source" /\ ~HasStray) =>
        IF HasUnbound
        THEN /\ phase = "compile_error"
             /\ compiler.err = "compile_error"
             /\ compiler.funcs = Compiler_new(checks).funcs
             /\ bytecode = <<>>
        ELSE phase = "compile_error" => DropsBinding

\* the compile error of a function body that reads or assigns a local of the
\* enclosing code
C18_Witness ==
    /\ phase = "compile_error"
    /\ HasUnbound
    /\ \E i \in DOMAIN ProgramOf(source) :
          Let(ProgramOf(source)[i], LAMBDA stmt :
              /\ stmt.t = "FnDef"
              /\ UnboundInStmts(stmt.stmts, 1, {stmt.args[k] : k \in DOMAIN stmt.args})
              /\ ~UnboundInStmts(stmt.stmts, 1,
                                 {stmt.args[k] : k \in DOMAIN stmt.args} \cup {"x"}))

\* the two operands of the binary operation about to execute
AtBinOp == Running /\ HasInst /\ Inst.op \in BinOps /\ Len(Top.stack) >= 2
Lhs == Top.stack[Len(Top.stack) - 1]
Rhs == Top.stack[Len(Top.stack)]
IsNumber(v) == v.k \in {"F64", "I64"}

\* the operand combinations that have a result: two numbers, or two strings
\* under Add
Supported(op, lhs, rhs) ==
    \/ IsNumber(lhs) /\ IsNumber(rhs)
    \/ lhs.k = "Str" /\ rhs.k = "Str" /\ op = "Add"

\* the slot a Call takes the callee's name from
AtCall == At("Call") /\ Len(Top.stack) >= Inst.arg0 + 1
Callee == Top.stack[Len(Top.stack) - Inst.arg0]

\* the runtime faults: unknown function name at Call, a callee-name slot that
\* is not a string, arithmetic on an unsupported operand combination, a
\* stack reference past the end of the frame's stack
UnknownFunction == AtCall /\ Callee.k = "Str" /\ Callee.s \notin DOMAIN bytecode
CalleeNotString == AtCall /\ Callee.k # "Str"
UnsupportedArithmetic == AtBinOp /\ ~Supported(Inst.op, Lhs, Rhs)
StackReferencePastEnd ==
    \/ At("Copy") /\ Inst.arg0 >= Len(Top.stack)
    \/ At("Store") /\ Inst.arg0 >= Len(Top.stack)
    \/ At("Call") /\ Inst.arg0 + 1 > Len(Top.stack)
    \/ At("Ret") /\ Inst.arg0 >= Len(Top.stack)
RuntimeFault ==
    UnknownFunction \/ CalleeNotString \/ UnsupportedArithmetic \/ StackReferencePastEnd

\* interpret returns an error to run_coro and the faulting instruction has
\* changed nothing
ReturnsError ==
    /\ phase' = "error"
    /\ result'.kind = "Err"
    /\ results' = Append(results, result')
    /\ log' = log

\* C19: each runtime fault ends the resume with an error result returned to
\* the host: the step taken at a faulting instruction is the return of an
\* Err from interpret, neither a Suspend nor a Finished, and nothing more
\* is executed
C19_FaultReturnsErrorToHost ==
    [][RuntimeFault => ReturnsError]_vars

\* lhs op rhs on numbers of which one at least is a float (an integer is
\* promoted), as a float
FloatResult(op, a, b) ==
    CASE op = "Add" -> Rat(a.n * b.d + b.n * a.d, a.d * b.d)
      [] op = "Sub" -> Rat(a.n * b.d - b.n * a.d, a.d * b.d)
      [] op = "Mul" -> Rat(a.n * b.n, a.d * b.d)
      [] op = "Div" -> Rat(a.n * b.d, a.d * b.n)
      [] op = "Lt" -> F64(IF a.n * b.d < b.n * a.d THEN 1 ELSE 0)

\* lhs op rhs on two integers (the quotient truncates towards zero; the
\* quotient by zero is left open)
IsIntegerResult(op, a, b, res) ==
    /\ res.k = "I64"
    /\ CASE op = "Add" -> res = I64(a + b)
         [] op = "Sub" -> res = I64(a - b)
         [] op = "Mul" -> res = I64(a * b)
         [] op = "Div" ->
              b # 0 => /\ Abs(res.n) * Abs(b) <= Abs(a)
                       /\ Abs(a) < (Abs(res.n) + 1) * Abs(b)
                       /\ (res.n # 0 => (res.n < 0) = ((a < 0) # (b < 0)))
         [] op = "Lt" -> res = I64(IF a < b THEN 1 ELSE 0)

IsResult(op, lhs, rhs, res) ==
    CASE lhs.k = "Str" -> res = StrV(lhs.s \o rhs.s)
      [] lhs.k = "I64" /\ rhs.k = "I64" -> IsIntegerResult(op, lhs.n, rhs.n, res)
      [] OTHER -> res = FloatResult(op, lhs, rhs)

\* the binary operation has replaced its two operands by res
PushesOneResult ==
    /\ phase' = "running"
    /\ Len(stack_frames') = Len(stack_frames)
    /\ Top'.ip = Top.ip + 1
    /\ Len(Top'.stack) = Len(Top.stack) - 1
    /\ SubSeq(Top'.stack, 1, Len(Top.stack) - 2) = SubSeq(Top.stack, 1, Len(Top.stack) - 2)
    /\ IsResult(Inst.op, Lhs, Rhs, Top'.stack[Len(Top'.stack)])

\* C20: Add, Sub, Mul, Div and Lt pop rhs then lhs and push exactly one
\* result: a float for two floats and for a float and an integer, an integer
\* for two integers, the concatenation for Add on two strings; Lt gives 1
\* exactly when lhs < rhs, as an integer for two integers and as a float
\* otherwise; every other combination of operands fails the VM
C20_BinaryOperationResult ==
    [][AtBinOp => IF Supported(Inst.op, Lhs, Rhs) THEN PushesOneResult
                  ELSE phase' \in {"panic", "error"}]_vars

\* C20 but for the quotient of two integers by zero
C20_ExceptIntegerQuotientByZero ==
    [][(AtBinOp /\ ~(Inst.op = "Div" /\ Lhs.k = "I64" /\ Rhs = I64(0))) =>
           IF Supported(Inst.op, Lhs, Rhs) THEN PushesOneResult
           ELSE phase' \in {"panic", "error"}]_vars

\* the value Jf is about to pop
AtJf == At("Jf") /\ Top.stack # <<>>
Cond == Top.stack[Len(Top.stack)]

\* C21: Jf a pops exactly one value of the frame's stack whether it jumps or
\* not, and sets ip to a exactly when the popped number, as a float, is 0.0,
\* to ip + 1 otherwise; a value with no float (a string) aborts the VM
C21_JfPopsOneAndJumpsOnZero ==
    [][AtJf =>
          IF IsNumber(Cond)
          THEN /\ phase' = "running"
               /\ Len(stack_frames') = Len(stack_frames)
               /\ Top'.stack = SubSeq(Top.stack, 1, Len(Top.stack) - 1)
               /\ Top'.ip = IF Cond.n = 0 /\ Cond.d # 0 THEN Inst.arg0 ELSE Top.ip + 1
          ELSE phase' = "panic"]_vars

\* a Jf has jumped over an instruction on an integer 0 and popped it
C21_Witness ==
    /\ phase = "running"
    /\ last.op = "Jf"
    /\ last.before[Len(last.before)] = I64(0)
    /\ Top.ip = last.a
    /\ last.a > last.ip + 1
    /\ Top.stack = <<I64(5)>>

\* C22: init for a name that resolves to a user function pushes exactly one
\* frame with ip 0 whose stack is the given arguments in order; init for a
\* native or for an unknown name returns an error and leaves the frame
\* stack as it was
C22_InitPushesOneFrameOrFails ==
    [][(last' # last /\ last'.op = "init_fn") =>
          IF last'.fn \in DOMAIN bytecode /\ bytecode[last'.fn].kind = "User"
          THEN /\ result'.kind # "Err"
               /\ Len(stack_frames') = Len(stack_frames) + 1
               /\ SubSeq(stack_frames', 1, Len(stack_frames)) = stack_frames
               /\ Top'.fn = last'.fn
               /\ Top'.ip = 0
               /\ Top'.stack = last'.before
          ELSE /\ result'.kind = "Err"
               /\ stack_frames' = stack_frames]_vars

\* init of f with one argument on top of a suspended frame
C22_Witness ==
    /\ last.op = "init_fn"
    /\ phase = "ready"
    /\ Len(stack_frames) = 2
    /\ Top.fn = "f"
    /\ Top.ip = 0
    /\ Top.stack = <<I64(2)>>

\* C23: run_fn of a user function returns the function's return value when
\* no Yield was executed, and returns an error, never a value, when the
\* function or a function it called executed a Yield
C23_RunFnReturnsValueOrFailsOnYield ==
    phase = "returned" =>
        /\ yields # <<>> => result.kind = "Err"
        /\ (yields = <<>> /\ stack_frames = <<>> /\ last.op \in {"Ret", "End"}) =>
               result = RunOk(last.val)
        /\ (result.kind = "Ok" /\ last.op # "run_fn") =>
               /\ yields = <<>>
               /\ stack_frames = <<>>
               /\ last.op \in {"Ret", "End"}

\* run_fn of main has failed on the Yield of the function main called
C23_Witness ==
    /\ phase = "returned"
    /\ result = Err("Yielded at toplevel")
    /\ yields = <<I64(2)>>
    /\ Len(stack_frames) = 2

\* one step of the VM on its program image: init of main or one instruction
\* of interpret
VmStep ==
    \/ InitFn
    \/ StepLoadLiteral
    \/ StepStore
    \/ StepCopy
    \/ StepDup
    \/ StepBinOp
    \/ StepCall
    \/ StepJmp
    \/ StepJf
    \/ StepPop
    \/ StepRet
    \/ StepEndOfCode
    \/ StepYield

\* the VM (frames, stacks, ips), what interpret has returned so far and the
\* native calls made so far
VmState == <<phase, stack_frames, result, results, log, yields>>

IndicesOf(pool, value) == {i \in 0..(Len(pool) - 1) : pool[i + 1] = value}

\* C25: no two entries of a literal pool are equal; interning a value equal
\* to an entry returns the index of that entry and leaves the pool as it
\* was, interning a new value appends it and returns the new last index
C25_InterningKeepsOneEntryPerValue ==
    /\ [](\A value \in LiteralValues :
             Cardinality(IndicesOf(compiler.literals, value)) <= 1)
    /\ [][last'.op = "add_literal" =>
             IF IndicesOf(compiler.literals, last'.val) # {}
             THEN /\ compiler'.literals = compiler.literals
                  /\ IndicesOf(compiler.literals, last'.val) = {last'.a}
             ELSE /\ compiler'.literals = Append(compiler.literals, last'.val)
                  /\ last'.a = Len(compiler'.literals) - 1]_vars

\* a value interned again after two others: the index of its entry is
\* returned and the pool still has three entries
C25_Witness ==
    /\ last.op = "add_literal"
    /\ Len(compiler.literals) = 3
    /\ last.a = 0
    /\ compiler.literals[1] = last.val

\* the instructions of function fn
InstsOf(fn) == compiler.funcs[fn].instructions

\* C26: every immediate of the bytecode the compiler outputs equals the
\* index it was computed from, a function that needs a larger one being
\* rejected: in every function produced, the Jf of each for-loop holds the
\* address of the loop's exit and the Jmp that ends the loop the address of
\* the exit check, and every LoadLiteral holds the index of its literal
C26_ImmediatesAreNotTruncated ==
    phase = "compiled" =>
        \A fn \in DOMAIN compiler.funcs :
            /\ \A l \in LoopsOf(fn) :
                   /\ InstsOf(fn)[l.check + 4].op = "Jf"
                   /\ InstsOf(fn)[l.check + 4].arg0 = l.exit
                   /\ InstsOf(fn)[l.exit].op = "Jmp"
                   /\ InstsOf(fn)[l.exit].arg0 = l.check
            /\ \A k \in DOMAIN InstsOf(fn) :
                   InstsOf(fn)[k].op = "LoadLiteral" =>
                       IndicesOf(compiler.funcs[fn].literals, InstsOf(fn)[k].lit) =
                           {InstsOf(fn)[k].arg0}

\* ------------------------------------------------------------------------
\* The value of an expression
\* ------------------------------------------------------------------------
\* the expressions compiled into function fn
ExprsOf(fn) == {compiler.funcs[fn].exprs[k] : k \in 1..Len(compiler.funcs[fn].exprs)}

\* the function definitions of the program, and the one that defines name
FnDefs == {ProgramOf(source)[i] : i \in {j \in 1..Len(ProgramOf(source)) :
                                             ProgramOf(source)[j].t = "FnDef"}}
IsUserFn(name) == \E f \in FnDefs : f.name = name
FnDefOf(name) == CHOOSE f \in FnDefs : f.name = name

\* an expression whose statements, in the branches of its if-expressions,
\* are all expression statements
RECURSIVE OnlyExprs(_)
OnlyExprStmts(stmts) ==
    \A i \in 1..Len(stmts) : stmts[i].t = "Expression" /\ OnlyExprs(stmts[i].ex)
OnlyExprs(ex) ==
    CASE ex.t \in {"NumLiteral", "StrLiteral", "Ident"} -> TRUE
      [] ex.t \in {"Add", "Sub", "Mul", "Div", "Gt", "Lt"} ->
           OnlyExprs(ex.lhs) /\ OnlyExprs(ex.rhs)
      [] ex.t = "FnInvoke" -> \A i \in 1..Len(ex.args) : OnlyExprs(ex.args[i])
      [] ex.t = "If" -> /\ OnlyExprs(ex.cond)
                        /\ OnlyExprStmts(ex.true_branch)
                        /\ OnlyExprStmts(ex.false_branch)

\* ex has a value that depends on the values of its names alone: it and the
\* functions of the program hold nothing but expressions
HasValue(ex) == OnlyExprs(ex) /\ \A f \in FnDefs : OnlyExprStmts(f.stmts)

\* an if-expression occurs in ex
RECURSIVE HasIf(_)
HasIf(ex) ==
    CASE ex.t \in {"NumLiteral", "StrLiteral", "Ident"} -> FALSE
      [] ex.t \in {"Add", "Sub", "Mul", "Div", "Gt", "Lt"} -> HasIf(ex.lhs) \/ HasIf(ex.rhs)
      [] ex.t = "FnInvoke" -> \E i \in 1..Len(ex.args) : HasIf(ex.args[i])
      [] ex.t = "If" -> TRUE

\* lhs op rhs
BinValue(op, lhs, rhs) ==
    CASE lhs.k = "Str" -> StrV(lhs.s \o rhs.s)
      [] lhs.k = "I64" /\ rhs.k = "I64" ->
           (CASE op = "Add" -> I64(lhs.n + rhs.n)
              [] op = "Sub" -> I64(lhs.n - rhs.n)
              [] op = "Mul" -> I64(lhs.n * rhs.n)
              [] op = "Div" -> I64((IF (lhs.n < 0) = (rhs.n < 0) THEN 1 ELSE -1)
                                   * (Abs(lhs.n) \div Abs(rhs.n)))
              [] op = "Lt" -> I64(IF lhs.n < rhs.n THEN 1 ELSE 0))
      [] OTHER -> FloatResult(op, lhs, rhs)

\* a condition that is not zero
IsTrue(v) == ~(v.k \in {"F64", "I64"} /\ v.n = 0 /\ v.d # 0)

\* the values of the names bound in the shadow stack `targets`, read from
\* `stack` (the innermost binding of a name is the one in scope)
EnvOf(targets, stack) ==
    [name \in {targets[i].name : i \in {j \in 1..Len(targets) : targets[j].t = "Local"}} |->
        stack[CHOOSE i \in 1..Len(targets) :
                  /\ targets[i] = Local(name)
                  /\ \A j \in (i + 1)..Len(targets) : targets[j] # Local(name)]]

\* the value of ex where the names have the values of env: a block has the
\* value of its last statement, an empty block and a missing else-branch
\* have the value 0.0, print and dbg return the integer 0
RECURSIVE ValueOf(_, _)
ValueOfStmts(stmts, env) ==
    IF stmts = <<>> THEN F64(0) ELSE ValueOf(stmts[Len(stmts)].ex, env)
ValueOf(ex, env) ==
    CASE ex.t = "NumLiteral" -> F64(ex.v)
      [] ex.t = "StrLiteral" -> StrV(ex.s)
      [] ex.t = "Ident" -> env[ex.name]
      [] ex.t \in {"Add", "Sub", "Mul", "Div", "Lt"} ->
           BinValue(ex.t, ValueOf(ex.lhs, env), ValueOf(ex.rhs, env))
      [] ex.t = "Gt" -> BinValue("Lt", ValueOf(ex.rhs, env), ValueOf(ex.lhs, env))
      [] ex.t = "FnInvoke" ->
           IF IsUserFn(ex.name)
           THEN LET f == FnDefOf(ex.name)
                IN ValueOfStmts(f.stmts,
                                EnvOf([i \in 1..Len(f.args) |-> Local(f.args[i])],
                                      [i \in 1..Len(f.args) |-> ValueOf(ex.args[i], env)]))
           ELSE I64(0)
      [] ex.t = "If" ->
           IF IsTrue(ValueOf(ex.cond, env)) THEN ValueOfStmts(ex.true_branch, env)
           ELSE IF ex.has_else THEN ValueOfStmts(ex.false_branch, env)
           ELSE F64(0)

\* the VM has just executed the code emitted for expression q of the running
\* function (for an identifier, which emits nothing, it stands where the
\* identifier was lowered)
AtEndOf(q) ==
    /\ Running
    /\ q \in ExprsOf(Top.fn)
    /\ Top.ip = q.to
    /\ q.from < q.to =>
          /\ last.op \notin {"none", "CallPush", "Ret", "End"}
          /\ last.fi = Len(stack_frames)
          /\ last.fn = Top.fn
          /\ q.from <= last.ip /\ last.ip < q.to

\* the value of expression q read in the running frame
ValueAt(q) == ValueOf(q.ex, EnvOf(q.locals, Top.stack))

\* C27: for every expression form (literal, identifier, arithmetic,
\* comparison, call, if-expression), after the code emitted for the
\* expression has executed, the value of the expression is on top of the
\* runtime stack and the index returned by the lowering is the index of that
\* top slot
C27_ExprLeavesItsValueOnTop ==
    Running =>
        \A q \in ExprsOf(Top.fn) :
            AtEndOf(q) =>
                /\ q.r = Len(Top.stack) - 1
                /\ HasValue(q.ex) => Top.stack[Len(Top.stack)] = ValueAt(q)

\* the statements of the branch the if-expression q takes in the running
\* frame (none when the condition is false and there is no else-branch)
BranchTaken(q) ==
    IF IsTrue(ValueOf(q.ex.cond, EnvOf(q.locals, Top.stack))) THEN q.ex.true_branch
    ELSE q.ex.false_branch

\* C28: after the code of an if-expression has executed, whichever branch
\* was taken, the runtime stack depth is the same and equals the shadow-stack
\* depth the compiler continues with, and the slot at the index returned by
\* the lowering holds the value of the last expression of the branch that
\* was taken
C28_IfLeavesBranchValueAtFixedSlot ==
    Running =>
        \A q \in ExprsOf(Top.fn) :
            (q.t = "If" /\ AtEndOf(q)) =>
                /\ Len(Top.stack) = Len(q.after)
                /\ (HasValue(q.ex) /\ BranchTaken(q) # <<>>) =>
                      Top.stack[q.r + 1] =
                          ValueOfStmts(BranchTaken(q), EnvOf(q.locals, Top.stack))

\* the record of the condition of the if-expression q of function fn, and
\* the addresses of the code that runs when the condition is false: from the
\* target of the Jf (which follows the Copy of the condition) to the end
CondOf(fn, q) ==
    CHOOSE c \in ExprsOf(fn) : c.ex = q.ex.cond /\ c.from = q.from /\ c.to <= q.to
FalseCode(fn, q) == Emitted(fn, CondOf(fn, q).to + 1).arg0 .. (q.to - 1)

\* the if-expressions without an else-branch compiled into function fn
IfsWithoutElse(fn) == {q \in ExprsOf(fn) : q.t = "If" /\ ~q.ex.has_else}

\* the code of q for a false condition loads the literal 0.0
LoadsZero(fn, q) ==
    \E ip \in FalseCode(fn, q) :
        /\ Emitted(fn, ip).op = "LoadLiteral"
        /\ Emitted(fn, ip).arg0 + 1 \in DOMAIN compiler.funcs[fn].literals
        /\ compiler.funcs[fn].literals[Emitted(fn, ip).arg0 + 1] = F64(0)

\* the running frame has just executed the if-expression q, which has no
\* else-branch, with a false condition
ElseMissed(q) ==
    /\ q \in IfsWithoutElse(Top.fn)
    /\ AtEndOf(q)
    /\ HasValue(q.ex.cond)
    /\ ~IsTrue(ValueOf(q.ex.cond, EnvOf(q.locals, Top.stack)))

\* C29: an if-expression that has no else-branch evaluates to the literal
\* 0.0 when its condition is false: the compiler emits LoadLiteral of 0.0
\* for the missing branch and the result slot holds 0.0
C29_MissingElseIsZero ==
    /\ \A fn \in DOMAIN compiler.funcs : \A q \in IfsWithoutElse(fn) : LoadsZero(fn, q)
    /\ Running => \A q \in ExprsOf(Top.fn) : ElseMissed(q) => Top.stack[q.r + 1] = F64(0)

\* the arithmetic, comparison and call expressions compiled into function fn
Operations(fn) ==
    {q \in ExprsOf(fn) : q.t \in {"Add", "Sub", "Mul", "Div", "Gt", "Lt", "FnInvoke"}}

\* the slots bound to a named local when the lowering of q began
LocalsOf(q) == {i \in 1..Len(q.locals) : q.locals[i].t = "Local"}

\* the instruction completed last belongs to the code of expression q
LastIsPartOf(q) ==
    /\ last.op \notin {"none", "Ret", "End"}
    /\ last.fi <= Len(stack_frames)
    /\ q \in Operations(last.fn)
    /\ q.from <= last.ip /\ last.ip < q.to

\* C30: executing the code emitted for an arithmetic, comparison or call
\* expression leaves the value of every slot bound to a named local unchanged
\* (every instruction of that code does) and leaves every such local bound
\* in the shadow stack
C30_OperationsKeepLocals ==
    /\ \A fn \in DOMAIN compiler.funcs : \A q \in Operations(fn) : \A i \in LocalsOf(q) :
           i <= Len(q.after) /\ q.after[i] = q.locals[i]
    /\ last.op \notin {"none", "Ret", "End"} =>
           \A q \in Operations(last.fn) : LastIsPartOf(q) =>
               \A i \in LocalsOf(q) :
                   /\ i <= Len(stack_frames[last.fi].stack)
                   /\ stack_frames[last.fi].stack[i] = last.before[i]

\* a binary operator has just been applied to copies of two named locals
C30_Witness ==
    /\ Running
    /\ \E q \in Operations(Top.fn) :
           /\ AtEndOf(q) /\ LastIsPartOf(q)
           /\ last.op \in {"Add", "Sub", "Mul", "Div", "Lt"}
           /\ q.ex.lhs.t = "Ident" /\ q.ex.rhs.t = "Ident"
           /\ Len(Top.stack) = Len(last.before) - 1

\* ------------------------------------------------------------------------
\* Assignment
\* ------------------------------------------------------------------------
\* the assignments compiled into function fn
AssignsOf(fn) == {compiler.funcs[fn].assigns[k] : k \in 1..Len(compiler.funcs[fn].assigns)}

\* the slot (counted from 1) of the binding of name that is in scope in the
\* shadow stack `targets`
SlotOf(targets, name) ==
    CHOOSE i \in 1..Len(targets) :
        /\ targets[i] = Local(name)
        /\ \A j \in (i + 1)..Len(targets) : targets[j] # Local(name)

\* the VM has just executed the Store that ends the assignment a
Assigned(a) ==
    /\ Running
    /\ a \in AssignsOf(Top.fn)
    /\ Top.ip = a.to
    /\ last.op = "Store" /\ last.ip = a.to - 1
    /\ last.fi = Len(stack_frames) /\ last.fn = Top.fn

\* C31: after `NAME = expr;` executes, the slot bound to NAME holds the
\* value of expr and the value of every other named local is unchanged
\* (also when NAME was defined by `var NAME = OTHER;`: NAME has a slot of
\* its own)
C31_AssignmentWritesOnlyItsSlot ==
    Running =>
        \A a \in AssignsOf(Top.fn) :
            Assigned(a) =>
                /\ HasValue(a.ex) =>
                      Top.stack[SlotOf(a.locals, a.name)] =
                          ValueOf(a.ex, EnvOf(a.locals, last.before))
                /\ \A i \in 1..Len(a.locals) :
                      (a.locals[i].t = "Local" /\ i # SlotOf(a.locals, a.name)) =>
                          Top.stack[i] = last.before[i]

\* a local defined from another local has just been assigned a new value
\* while the other local is still in scope
C31_Witness ==
    /\ Running
    /\ \E a \in AssignsOf(Top.fn) :
           /\ Assigned(a)
           /\ \E i \in 1..Len(ProgramOf(source)) :
                  /\ ProgramOf(source)[i].t = "VarDef"
                  /\ ProgramOf(source)[i].name = a.name
                  /\ ProgramOf(source)[i].ex.t = "Ident"
                  /\ \E j \in 1..Len(a.locals) :
                         a.locals[j] = Local(ProgramOf(source)[i].ex.name)
           /\ Top.stack[SlotOf(a.locals, a.name)] # last.before[SlotOf(a.locals, a.name)]

\* ------------------------------------------------------------------------
\* Function definitions
\* ------------------------------------------------------------------------
\* the step compiles a function definition, and compiles it without error
DefinesFn == CompileStmt /\ NextStmt.t = "FnDef" /\ IsOk(compiler')

\* the function a definition registers when it is the first statement of a
\* program
FreshlyCompiled(stmt) == fn_def(Compiler_new(checks), stmt).funcs[stmt.name]

\* C32: compiling a function definition emits no instruction into the
\* enclosing function and leaves the enclosing function's instruction
\* buffer, literal pool and shadow stack exactly as they were, while
\* registering the new function with its own fresh literals and instructions
C32_FnDefLeavesEnclosingCodeAlone ==
    [][DefinesFn =>
          /\ compiler'.instructions = compiler.instructions
          /\ compiler'.literals = compiler.literals
          /\ compiler'.target_stack = compiler.target_stack
          /\ NextStmt.name \in DOMAIN compiler'.funcs
          /\ FnByteCode(compiler'.funcs[NextStmt.name]) =
                 FnByteCode(FreshlyCompiled(NextStmt))
          /\ \A name \in DOMAIN compiler.funcs :
                 name # NextStmt.name => compiler'.funcs[name] = compiler.funcs[name]]_vars

\* a function with literals and instructions of its own has been defined
\* after the enclosing code had emitted instructions, literals and a local
C32_Witness ==
    /\ phase = "source"
    /\ last.op = "FnDef"
    /\ IsOk(compiler)
    /\ compiler.instructions # <<>> /\ compiler.literals # <<>>
    /\ \E i \in 1..Len(compiler.target_stack) : compiler.target_stack[i].t = "Local"
    /\ \E name \in DOMAIN compiler.funcs :
           /\ compiler.funcs[name].instructions # <<>>
           /\ compiler.funcs[name].literals # <<>>
           /\ compiler.funcs[name].literals # compiler.literals

\* the frame of a user function called by another frame stands at the end
\* of its code, and the body of the function is made of expression
\* statements, the last of which gives its value
EndsWithExpr ==
    /\ Running /\ ~HasInst
    /\ Len(stack_frames) > 1
    /\ IsUserFn(Top.fn)
    /\ FnDefOf(Top.fn).stmts # <<>>
    /\ \A f \in FnDefs : OnlyExprStmts(f.stmts)

\* the value of the body of the running function for the arguments of its
\* frame
BodyValue ==
    ValueOfStmts(FnDefOf(Top.fn).stmts,
                 EnvOf([i \in 1..Len(FnDefOf(Top.fn).args) |-> Local(FnDefOf(Top.fn).args[i])],
                       Top.stack))

\* C33: a user function whose body ends with an expression statement
\* returns the value of that expression to its caller, for every expression
\* form (a bare identifier that is not in the top slot included)
C33_FunctionReturnsBodyValue ==
    [][EndsWithExpr =>
          /\ Len(stack_frames') = Len(stack_frames) - 1
          /\ Top'.stack[Len(Top'.stack)] = BodyValue]_vars

\* C33 for the bodies whose last expression is not an identifier
C33_ExceptIdentifier ==
    [][(EndsWithExpr /\ FnDefOf(Top.fn).stmts[Len(FnDefOf(Top.fn).stmts)].ex.t # "Ident") =>
          /\ Len(stack_frames') = Len(stack_frames) - 1
          /\ Top'.stack[Len(Top'.stack)] = BodyValue]_vars

\* ------------------------------------------------------------------------
\* Names
\* ------------------------------------------------------------------------
\* the reads of a name compiled into function fn
ReadsOf(fn) == {q \in ExprsOf(fn) : q.t = "Ident"}

\* the name read by q has more than one binding in scope
Rebound(q) ==
    Cardinality({i \in 1..Len(q.locals) : q.locals[i] = Local(q.ex.name)}) > 1

\* C34: a read of a name resolves to the most recently created binding of
\* that name in the current function (after a second `var` of the name,
\* after an earlier for-loop over the name, inside a loop whose variable has
\* the name of an earlier local): the slot compile_expr returns is the slot
\* of the newest binding, and it holds the newest binding's value when the
\* VM stands where the read was lowered
C34_ReadSeesNewestBinding ==
    /\ \A fn \in DOMAIN compiler.funcs : \A q \in ReadsOf(fn) :
           q.r + 1 = SlotOf(q.locals, q.ex.name)
    /\ Running => \A q \in ReadsOf(Top.fn) :
           (AtEndOf(q) /\ Len(Top.stack) = Len(q.locals)) =>
               Top.stack[q.r + 1] = Top.stack[SlotOf(q.locals, q.ex.name)]

\* C34 for the reads of a name that is bound once
C34_ForNamesBoundOnce ==
    /\ \A fn \in DOMAIN compiler.funcs : \A q \in ReadsOf(fn) :
           ~Rebound(q) => q.r + 1 = SlotOf(q.locals, q.ex.name)
    /\ Running => \A q \in ReadsOf(Top.fn) :
           (AtEndOf(q) /\ Len(Top.stack) = Len(q.locals) /\ ~Rebound(q)) =>
               Top.stack[q.r + 1] = Top.stack[SlotOf(q.locals, q.ex.name)]

\* every expression recorded by the compiler: those of the registered
\* functions and those of the code being compiled
AllExprs ==
    UNION {ExprsOf(fn) : fn \in DOMAIN compiler.funcs}
    \cup {compiler.exprs[k] : k \in 1..Len(compiler.exprs)}

\* a branch of the if-expression ex holds a break or a continue
LeavesLoop(ex) ==
    \E stmts \in {ex.true_branch, ex.false_branch} :
        \E i \in 1..Len(stmts) : stmts[i].t \in {"Break", "Continue"}

\* C35: compiling a break or continue inside a branch of an if-expression
\* does not change name resolution for the code after the if: every local
\* bound before the if is bound to the same slot after it, and a program
\* whose reads are all of bound names compiles
C35_BreakInBranchKeepsLocalsBound ==
    /\ \A q \in AllExprs :
           (q.t = "If" /\ LeavesLoop(q.ex)) =>
               \A i \in LocalsOf(q) : i <= Len(q.after) /\ q.after[i] = q.locals[i]
    /\ (phase # "source" /\ ~HasUnbound /\ ~HasStray) => compiler.err # "compile_error"


\* ------------------------------------------------------------------------
\* Yield of a named local
\* ------------------------------------------------------------------------

\* the programs whose loop body yields the loop variable
YieldsLoopVariable == source.loop /\ source.p \in {13, 14, 21}
\* the index of the loop variable in the frame's stack
LoopVariableSlot == (CHOOSE l \in LoopsOf("main") : TRUE).lv + 1
Suspends(vals) == [k \in 1..Len(vals) |-> Suspend(vals[k])]

\* C36: `yield NAME;` with NAME a for-loop variable compiles and runs without
\* error; the Yield surfaces the value of NAME's slot and leaves that slot
\* in the frame with the same value, and `for i in A to B { yield i; }`
\* suspends once per iteration with A, A + 1, ..., B - 1 before it finishes.
C36_YieldOfLocalKeepsItBound ==
    YieldsLoopVariable =>
        /\ phase \notin {"compile_error", "panic", "error"}
        /\ (last.op = "Yield" /\ LastInFrame) =>
               /\ result = Suspend(last.before[LoopVariableSlot])
               /\ Len(stack_frames[last.fi].stack) >= LoopVariableSlot
               /\ stack_frames[last.fi].stack[LoopVariableSlot]
                      = last.before[LoopVariableSlot]
        /\ (source.p = 21 /\ phase = "finished") =>
               SubSeq(results, 1, Len(results) - 1)
                   = Suspends(Values(source.s, source.e))


\* ------------------------------------------------------------------------
\* The stack at a for-loop's exit check
\* ------------------------------------------------------------------------

\* the next instruction of the innermost frame is the first of loop l's exit check
AtExitCheck(l) == Running /\ Top.ip = l.check

\* C37: whenever execution is at the exit check of a for-loop, on first
\* entry, after the end of the body or after a continue, the frame's stack
\* has the loop variable's slot as its top slot: its depth is the same at
\* every arrival.
C37_ExitCheckAtLoopVariableDepth ==
    \A l \in (IF Running THEN LoopsOf(Top.fn) ELSE {}) :
        AtExitCheck(l) => Len(Top.stack) = l.lv + 1

\* the third arrival at the exit check of `for i in 0 to 2 { if i < 1 {
\* continue; } print(i); }`: one iteration ended by the continue and one by
\* the end of the body
C37_Witness ==
    /\ source.loop /\ source.p = 4 /\ source.s = 0
    /\ \E l \in (IF Running THEN LoopsOf(Top.fn) ELSE {}) :
           /\ AtExitCheck(l)
           /\ last.op = "Jmp" /\ last.ip = l.pad + 5
           /\ Len(Top.stack) = l.lv + 1
           /\ Top.stack[l.lv + 1] = F64(2)


\* ------------------------------------------------------------------------
\* Stack addressing of the compiled code
\* ------------------------------------------------------------------------

Depth == Len(Top.stack)

\* the slots instruction inst addresses exist in a stack of the given depth
InBounds(inst, depth) ==
    CASE inst.op = "Copy" -> inst.arg0 < depth
      [] inst.op = "Store" -> 1 <= inst.arg0 /\ inst.arg0 < depth
      [] inst.op = "Pop" -> inst.arg0 <= depth
      [] inst.op \in BinOps -> depth >= 2
      [] inst.op \in {"Jf", "Dup"} -> depth >= 1
      [] OTHER -> TRUE

\* C38: every instruction of compiled code that the VM is about to execute
\* addresses inside its frame's stack: Copy a has a < depth, Store a has
\* 1 <= a < depth, Pop a has a <= depth, a binary operator has depth >= 2,
\* Jf and Dup have depth >= 1, and a frame at the end of its code has
\* depth >= 1.
C38_InstructionsAddressInsideFrame ==
    Running => IF HasInst THEN InBounds(Inst, Depth) ELSE Depth >= 1

\* the same for the programs that do not yield a loop variable
C38_ExceptAfterYieldOfLocal ==
    ~YieldsLoopVariable => C38_InstructionsAddressInsideFrame


\* ------------------------------------------------------------------------
\* A host that calls interpret again after Finished, or although init_fn
\* failed (run_coro enters its loop after printing the error of init_fn)
\* ------------------------------------------------------------------------
\* further calls of interpret after the run has ended
MaxResumes == 2

\* a bytecode file without a function main
NoMainImage ==
    [f |-> FnImage(<<"a">>, <<I64(1)>>,
                   <<Ins("Copy", 0), Ins("LoadLiteral", 0), Ins("Add", 0)>>)]

InitResume ==
    /\ source = NoSource
    /\ checks \in BOOLEAN
    /\ phase = "compiled"
    /\ compiler \in {[Compiler_new(checks) EXCEPT !.funcs = P] :
                        P \in VmImages \cup {NoMainImage}}
    /\ bytecode = <<>>
    /\ stack_frames = <<>>
    /\ result = NoRes
    /\ results = <<>>
    /\ log = <<>>
    /\ yields = <<>>
    /\ last = NoLast

\* the results so far that ended a call of interpret without a suspension
Ended == SelectSeq(results, LAMBDA r : r.kind # "Suspend")

\* the host calls vm.interpret() once more after Finished or after an Err
ResumeAgain ==
    /\ phase \in {"finished", "error"}
    /\ Len(Ended) <= MaxResumes
    /\ phase' = "running"
    /\ UNCHANGED <<source, checks, compiler, bytecode, stack_frames, result, results, log,
                   yields, last>>

\* interpret that takes the absence of a frame for the end of the run
InterpretWithoutFrameFinishes ==
    /\ phase = "running" /\ stack_frames = <<>>
    /\ Returns(Finished(NoVal))
    /\ UNCHANGED <<source, checks, compiler, bytecode, stack_frames, log, yields, last>>

\* interpret: self.top()? with no frame on the frame stack
InterpretWithoutFrame ==
    /\ phase = "running" /\ stack_frames = <<>>
    /\ Returns(Err("Stack frame underflow"))
    /\ UNCHANGED <<source, checks, compiler, bytecode, stack_frames, log, yields, last>>

NextResume ==
    \/ ReadProgram
    \/ InitFn
    \/ Resume
    \/ ResumeAgain
    \/ InterpretWithoutFrame
    \/ StepLoadLiteral
    \/ StepStore
    \/ StepCopy
    \/ StepDup
    \/ StepBinOp
    \/ StepCall
    \/ StepJmp
    \/ StepJf
    \/ StepPop
    \/ StepRet
    \/ StepEndOfCode
    \/ StepYield

SpecResume == InitResume /\ [][NextResume]_vars

\* C39: when interpret has returned Finished the frame stack is empty, and a
\* call of interpret with an empty frame stack, after Finished or when
\* init_fn has pushed no frame, returns the error "Stack frame underflow",
\* completes no instruction, prints nothing and leaves the frame stack empty.
C39_ResumeWithoutFrameIsUnderflow ==
    [][/\ phase = "finished" => stack_frames = <<>>
       /\ (phase = "running" /\ stack_frames = <<>>) =>
              /\ result' = Err("Stack frame underflow")
              /\ results' = Append(results, Err("Stack frame underflow"))
              /\ phase' = "error"
              /\ stack_frames' = <<>>
              /\ last' = last
              /\ log' = log
              /\ yields' = yields]_vars

\* interpret was called again after it had returned Finished, and has
\* returned the error
C39_Witness ==
    /\ Len(results) >= 2
    /\ results[Len(results) - 1].kind = "Finished"
    /\ result = Err("Stack frame underflow")
    /\ phase = "error"
    /\ stack_frames = <<>>


\* ------------------------------------------------------------------------
\* Tree-walking interpreter (main.rs): eval and eval_stmts walk the AST with
\* a StackFrame of variables and functions; `out` is what has been printed
\* ------------------------------------------------------------------------
\* EvalResult::Continue(val)
EvalContinue(val, frame, out) ==
    [cf |-> "Continue", br |-> "", val |-> val, frame |-> frame, out |-> out]
\* EvalResult::Break(BreakResult::Return(val)), ::Break, ::Continue
EvalBreak(br, val, frame, out) ==
    [cf |-> "Break", br |-> br, val |-> val, frame |-> frame, out |-> out]
\* a panic of the interpreter
EvalPanic(frame, out) ==
    [cf |-> "Panic", br |-> "", val |-> NoVal, frame |-> frame, out |-> out]

\* the `?` applied to an EvalResult: a Break is returned at once
Try(r, F(_)) == Let(r, LAMBDA x : IF x.cf = "Continue" THEN F(x) ELSE x)

\* FnDef::User and the natives print and dbg of StackFrame::new
UserFn(args, stmts) == [kind |-> "User", name |-> "", args |-> args, stmts |-> stmts]
NativeFn(name) == [kind |-> "Native", name |-> name, args |-> <<"arg">>, stmts |-> <<>>]

\* StackFrame::new; uplevel is the chain of the `funcs` of the frames below
AstFrame_new ==
    [vars |-> <<>>,
     funcs |-> ("print" :> NativeFn("print")) @@ ("dbg" :> NativeFn("dbg")),
     uplevel |-> <<>>]

\* StackFrame::push_stack
push_stack(uplevel) ==
    [vars |-> <<>>, funcs |-> <<>>, uplevel |-> <<uplevel.funcs>> \o uplevel.uplevel]

\* StackFrame::get_fn: the frame's own functions, then those of the uplevels
get_fn(frame, name) ==
    LET chain == <<frame.funcs>> \o frame.uplevel
        found == {i \in 1..Len(chain) : name \in DOMAIN chain[i]}
    IN IF found = {} THEN [ok |-> FALSE, v |-> NativeFn("")]
       ELSE [ok |-> TRUE, v |-> chain[Min(found)][name]]

\* `v as i64` of a finite f64: truncation toward zero
Truncated(v) == (IF v.n < 0 THEN -1 ELSE 1) * (Abs(v.n) \div v.d)

\* Value::as_i64 and coerce_i64 as [ok, v]; a NaN casts to 0. A string that
\* parses as an integer and an infinite f64 are not among the values the
\* programs of the model convert.
as_i64(v) ==
    CASE v.k = "I64" -> [ok |-> TRUE, v |-> v.n]
      [] v.k = "F64" /\ v.d # 0 -> [ok |-> TRUE, v |-> Truncated(v)]
      [] v.k = "F64" /\ v.n = 0 -> [ok |-> TRUE, v |-> 0]
      [] OTHER -> [ok |-> FALSE, v |-> 0]

coerce_i64(v) == IF v.k = "Str" THEN [ok |-> FALSE, v |-> 0] ELSE as_i64(v)

\* lhs < rhs by Value::partial_cmp: numbers are compared as f64 (a NaN
\* compares with nothing), a number and a string do not compare; of two
\* strings the model only knows whether they are equal
value_lt(lhs, rhs) ==
    CASE lhs.k = "Str" \/ rhs.k = "Str" -> FALSE
      [] (lhs.d = 0 /\ lhs.n = 0) \/ (rhs.d = 0 /\ rhs.n = 0) -> FALSE
      [] lhs.d = 0 -> lhs.n < 0 /\ ~(rhs.d = 0 /\ rhs.n < 0)
      [] rhs.d = 0 -> rhs.n > 0
      [] OTHER -> lhs.n * rhs.d < rhs.n * lhs.d

\* binary_op_str with the closures of Add, Sub, Mul and Div: f64 if one side
\* is an f64, i64 on two i64, concatenation for Add on two strings, a panic
\* otherwise
binary_op_str(op, lhs, rhs) == interpret_bin_op_str(op, lhs, rhs)

\* the HashMap that FnDef::call collects from args.iter().zip(user_fn.args)
ZipArgs(params, args) ==
    LET n == Min({Len(params), Len(args)})
    IN [name \in {params[i] : i \in 1..n} |->
           args[CHOOSE i \in 1..n :
                    params[i] = name /\ \A j \in (i + 1)..n : params[j] # name]]

RECURSIVE eval(_, _, _)
RECURSIVE eval_args(_, _, _, _, _)
RECURSIVE FnDef_call(_, _, _, _)
RECURSIVE eval_stmt(_, _, _, _)
RECURSIVE for_range(_, _, _, _, _, _)
RECURSIVE eval_stmts_from(_, _, _, _, _)

eval_stmts(stmts, frame, out) == eval_stmts_from(stmts, 1, frame, out, I64(0))

\* the loop over args of FnInvoke: val is the vector arg_vals
eval_args(args, i, arg_vals, frame, out) ==
    IF i > Len(args) THEN EvalContinue(arg_vals, frame, out)
    ELSE Try(eval(args[i], frame, out), LAMBDA a :
             eval_args(args, i + 1, Append(arg_vals, a.val), a.frame, a.out))

\* FnDef::call: the caller's frame is only read
FnDef_call(func, args, frame, out) ==
    IF func.kind = "Native"
    THEN IF args = <<>> THEN EvalPanic(frame, out)
         ELSE EvalContinue(I64(0), frame,
                           Append(out, [name |-> func.name, args |-> <<args[1]>>]))
    ELSE Let(eval_stmts(func.stmts,
                        [push_stack(frame) EXCEPT !.vars = ZipArgs(func.args, args)],
                        out),
             LAMBDA r :
                 IF r.cf = "Continue" \/ (r.cf = "Break" /\ r.br = "Return")
                 THEN EvalContinue(r.val, frame, r.out)
                 ELSE EvalPanic(frame, r.out))

eval(expr, frame, out) ==
    CASE expr.t = "Ident" ->
           IF expr.name = "pi" THEN EvalContinue(Rat(314159, 100000), frame, out)
           ELSE IF expr.name \in DOMAIN frame.vars
           THEN EvalContinue(frame.vars[expr.name], frame, out)
           ELSE EvalPanic(frame, out)
      [] expr.t = "NumLiteral" -> EvalContinue(F64(expr.v), frame, out)
      [] expr.t = "StrLiteral" -> EvalContinue(StrV(expr.s), frame, out)
      [] expr.t = "FnInvoke" ->
           Try(eval_args(expr.args, 1, <<>>, frame, out), LAMBDA a :
               Let(get_fn(a.frame, expr.name), LAMBDA func :
                   IF func.ok THEN FnDef_call(func.v, a.val, a.frame, a.out)
                   ELSE EvalPanic(a.frame, a.out)))
      [] expr.t \in {"Add", "Sub", "Mul", "Div"} ->
           Try(eval(expr.lhs, frame, out), LAMBDA l :
           Try(eval(expr.rhs, l.frame, l.out), LAMBDA r :
               Let(binary_op_str(expr.t, l.val, r.val), LAMBDA res :
                   IF res.ok THEN EvalContinue(res.v, r.frame, r.out)
                   ELSE EvalPanic(r.frame, r.out))))
      [] expr.t = "Gt" ->
           Try(eval(expr.lhs, frame, out), LAMBDA l :
           Try(eval(expr.rhs, l.frame, l.out), LAMBDA r :
               EvalContinue(I64(IF value_lt(r.val, l.val) THEN 1 ELSE 0), r.frame, r.out)))
      [] expr.t = "Lt" ->
           Try(eval(expr.lhs, frame, out), LAMBDA l :
           Try(eval(expr.rhs, l.frame, l.out), LAMBDA r :
               EvalContinue(I64(IF value_lt(l.val, r.val) THEN 1 ELSE 0), r.frame, r.out)))
      [] expr.t = "If" ->
           Try(eval(expr.cond, frame, out), LAMBDA c :
               Let(coerce_i64(c.val), LAMBDA n :
                   IF ~n.ok THEN EvalPanic(c.frame, c.out)
                   ELSE IF n.v # 0 THEN eval_stmts(expr.true_branch, c.frame, c.out)
                   ELSE IF expr.has_else THEN eval_stmts(expr.false_branch, c.frame, c.out)
                   ELSE EvalContinue(I64(0), c.frame, c.out)))

\* for_range that hands a Break(Break) of the body on to the loops around it
for_range_break_all(i, end, stmt, frame, out, last_result) ==
    IF i >= end THEN EvalContinue(last_result, frame, out)
    ELSE Let(eval_stmts(stmt.stmts,
                        [frame EXCEPT !.vars = Insert(@, stmt.loop_var, I64(i))], out),
             LAMBDA r :
                 CASE r.cf = "Continue" ->
                        for_range(i + 1, end, stmt, r.frame, r.out, r.val)
                   [] r.cf = "Break" /\ r.br = "Continue" ->
                        for_range(i + 1, end, stmt, r.frame, r.out, last_result)
                   [] OTHER -> r)

\* `for i in start..end` of Statement::For; a Break(Break) or
\* Break(Continue) of the body ends here
for_range(i, end, stmt, frame, out, last_result) ==
    IF i >= end THEN EvalContinue(last_result, frame, out)
    ELSE Let(eval_stmts(stmt.stmts,
                        [frame EXCEPT !.vars = Insert(@, stmt.loop_var, I64(i))], out),
             LAMBDA r :
                 CASE r.cf = "Continue" ->
                        for_range(i + 1, end, stmt, r.frame, r.out, r.val)
                   [] r.cf = "Break" /\ r.br = "Break" ->
                        EvalContinue(last_result, r.frame, r.out)
                   [] r.cf = "Break" /\ r.br = "Continue" ->
                        for_range(i + 1, end, stmt, r.frame, r.out, last_result)
                   [] OTHER -> r)

\* one iteration of `for statement in stmts` of eval_stmts: Continue with the
\* new last_result as val, or what eval_stmts returns at once
eval_stmt(stmt, frame, out, last_result) ==
    CASE stmt.t = "Expression" -> eval(stmt.ex, frame, out)
      [] stmt.t = "VarDef" ->
           Try(eval(stmt.ex, frame, out), LAMBDA x :
               EvalContinue(last_result,
                            [x.frame EXCEPT !.vars = Insert(@, stmt.name, x.val)], x.out))
      [] stmt.t = "VarAssign" ->
           IF stmt.name \notin DOMAIN frame.vars THEN EvalPanic(frame, out)
           ELSE Try(eval(stmt.ex, frame, out), LAMBDA x :
                    EvalContinue(last_result,
                                 [x.frame EXCEPT !.vars = Insert(@, stmt.name, x.val)],
                                 x.out))
      [] stmt.t = "FnDef" ->
           EvalContinue(last_result,
                        [frame EXCEPT !.funcs =
                            Insert(@, stmt.name, UserFn(stmt.args, stmt.stmts))],
                        out)
      [] stmt.t = "For" ->
           Try(eval(stmt.start, frame, out), LAMBDA s :
               IF ~as_i64(s.val).ok THEN EvalPanic(s.frame, s.out)
               ELSE Try(eval(stmt.end, s.frame, s.out), LAMBDA e :
                        IF ~as_i64(e.val).ok THEN EvalPanic(e.frame, e.out)
                        ELSE for_range(as_i64(s.val).v, as_i64(e.val).v, stmt,
                                       e.frame, e.out, last_result)))
      [] stmt.t = "Return" ->
           Try(eval(stmt.ex, frame, out), LAMBDA x :
               EvalBreak("Return", x.val, x.frame, x.out))
      [] stmt.t = "Break" -> EvalBreak("Break", NoVal, frame, out)
      [] stmt.t = "Continue" -> EvalBreak("Continue", NoVal, frame, out)

eval_stmts_from(stmts, i, frame, out, last_result) ==
    IF i > Len(stmts) THEN EvalContinue(last_result, frame, out)
    ELSE Let(eval_stmt(stmts[i], frame, out, last_result), LAMBDA r :
             IF r.cf = "Continue" THEN eval_stmts_from(stmts, i + 1, r.frame, r.out, r.val)
             ELSE r)

\* programs for the tree-walking interpreter, with loops from s to e
Num(n) == NumLiteral(n)
AstPrograms(s, e) ==
    << \* for i in s to e { if i > 0 { break; } print(i); } print(9);
       << For("i", Num(s), Num(e),
              << ExprS(IfE(GtE(Ident("i"), Num(0)), << Break >>)), PrintS(Ident("i")) >>),
          PrintS(Num(9)) >>,
       \* for i in s to e { if i < 1 { continue; } print(i); } print(9);
       << For("i", Num(s), Num(e),
              << ExprS(IfE(LtE(Ident("i"), Num(1)), << Continue >>)), PrintS(Ident("i")) >>),
          PrintS(Num(9)) >>,
       \* for i in s to e { for j in 0 to e { if j > 0 { break; } print(j); } print(i); }
       \* print(9);
       << For("i", Num(s), Num(e),
              << For("j", Num(0), Num(e),
                     << ExprS(IfE(GtE(Ident("j"), Num(0)), << Break >>)),
                        PrintS(Ident("j")) >>),
                 PrintS(Ident("i")) >>),
          PrintS(Num(9)) >>,
       \* for i in s to e { for j in 0 to e { if j < 1 { continue; } print(j); } print(i); }
       \* print(9);
       << For("i", Num(s), Num(e),
              << For("j", Num(0), Num(e),
                     << ExprS(IfE(LtE(Ident("j"), Num(1)), << Continue >>)),
                        PrintS(Ident("j")) >>),
                 PrintS(Ident("i")) >>),
          PrintS(Num(9)) >>,
       \* for i in s to e { if i > 0 { if i < 5 { break; } else { 1 } } print(i); }
       \* print(9);
       << For("i", Num(s), Num(e),
              << ExprS(IfE(GtE(Ident("i"), Num(0)),
                           << ExprS(IfElseE(LtE(Ident("i"), Num(5)), << Break >>,
                                            << ExprS(Num(1)) >>)) >>)),
                 PrintS(Ident("i")) >>),
          PrintS(Num(9)) >>,
       \* fn f(n) { for i in s to n { for j in 0 to n { if j > 0 { return i + 10; }
       \* print(j); } print(i); } 7 } print(f(e)); print(9);
       << FnDefS("f", <<"n">>,
                 << For("i", Num(s), Ident("n"),
                        << For("j", Num(0), Ident("n"),
                               << ExprS(IfE(GtE(Ident("j"), Num(0)),
                                            << Return(AddE(Ident("i"), Num(10))) >>)),
                                  PrintS(Ident("j")) >>),
                           PrintS(Ident("i")) >>),
                    ExprS(Num(7)) >>),
          PrintS(FnInvoke("f", <<Num(e)>>)),
          PrintS(Num(9)) >>,
       \* fn f() { break; } for i in s to e { f(); print(i); } print(9);
       << FnDefS("f", <<>>, << Break >>),
          For("i", Num(s), Num(e), << ExprS(FnInvoke("f", <<>>)), PrintS(Ident("i")) >>),
          PrintS(Num(9)) >>,
       \* fn g() { if 1 { continue; } 3 } for i in s to e { print(g()); } print(9);
       << FnDefS("g", <<>>, << ExprS(IfE(Num(1), << Continue >>)), ExprS(Num(3)) >>),
          For("i", Num(s), Num(e), << PrintS(FnInvoke("g", <<>>)) >>),
          PrintS(Num(9)) >>,
       \* for i in s to e { if i > 0 { return i; } print(i); } print(9);
       << For("i", Num(s), Num(e),
              << ExprS(IfE(GtE(Ident("i"), Num(0)), << Return(Ident("i")) >>)),
                 PrintS(Ident("i")) >>),
          PrintS(Num(9)) >>,
       \* for i in s to e { print(i); continue; print(7); } print(9);
       << For("i", Num(s), Num(e),
              << PrintS(Ident("i")), Continue, PrintS(Num(7)) >>),
          PrintS(Num(9)) >>,
       \* fn f(n) { for j in 0 to 3 { if j > n { return j; } } 0 - 1 }
       \* for i in s to e { print(f(i)); } print(9);
       << FnDefS("f", <<"n">>,
                 << For("j", Num(0), Num(3),
                        << ExprS(IfE(GtE(Ident("j"), Ident("n")),
                                     << Return(Ident("j")) >>)) >>),
                    ExprS(SubE(Num(0), Num(1))) >>),
          For("i", Num(s), Num(e), << PrintS(FnInvoke("f", <<Ident("i")>>)) >>),
          PrintS(Num(9)) >>
    >>

AstProgramOf(src) == AstPrograms(src.s, src.e)[src.p]

AstSources ==
    {[loop |-> TRUE, p |-> p, s |-> s, e |-> e] :
        p \in 1..Len(AstPrograms(0, 0)), s \in 0..MaxStart, e \in 0..MaxEnd}

\* main of main.rs: the statements are parsed, the frame is StackFrame::new
InitAst ==
    /\ source \in AstSources
    /\ checks = FALSE
    /\ phase = "source"
    /\ compiler = Compiler_new(FALSE)
    /\ bytecode = <<>>
    /\ stack_frames = <<AstFrame_new>>
    /\ result = NoRes
    /\ results = <<>>
    /\ log = <<>>
    /\ yields = <<>>
    /\ last = NoLast

\* the statements of the program evaluated so far, and last_result
Evaluated == last.ip
LastValue == IF last.op = "none" THEN I64(0) ELSE last.val

\* main: eval_stmts(&parsed_statements, &mut frame), one statement of the
\* program at a time; a Break that reaches main ends the evaluation
EvalStmt ==
    /\ phase = "source"
    /\ Evaluated < Len(AstProgramOf(source))
    /\ \E r \in {eval_stmt(AstProgramOf(source)[Evaluated + 1], stack_frames[1], log,
                           LastValue)} :
          /\ stack_frames' = <<r.frame>>
          /\ log' = r.out
          /\ last' = [NoLast EXCEPT !.op = AstProgramOf(source)[Evaluated + 1].t,
                                    !.ip = Evaluated + 1, !.val = r.val]
          /\ phase' = CASE r.cf = "Continue" -> "source"
                        [] r.cf = "Break" -> "exited"
                        [] OTHER -> "panic"
          /\ result' = IF r.cf = "Break" THEN [kind |-> r.br, val |-> r.val] ELSE result
    /\ UNCHANGED <<source, checks, compiler, bytecode, results, yields>>

\* main: eval_stmts returns last_result after the last statement
EvalEnd ==
    /\ phase = "source"
    /\ Evaluated = Len(AstProgramOf(source))
    /\ phase' = "exited"
    /\ result' = [kind |-> "Continue", val |-> LastValue]
    /\ UNCHANGED <<source, checks, compiler, bytecode, stack_frames, results, log, yields,
                   last>>

SpecAst == InitAst /\ [][EvalStmt \/ EvalEnd]_vars

\* ------------------------------------------------------------------------
\* break, continue and return in the tree-walking interpreter
\* ------------------------------------------------------------------------
\* the loop variable's values a, a + 1, ... below b
Ints(a, b) == [k \in 1..(IF b > a THEN b - a ELSE 0) |-> I64(a + k - 1)]

\* per(i) for i = a, a + 1, ... below b, one after the other
RECURSIVE ForEach(_, _, _)
ForEach(a, b, per) == IF a >= b THEN <<>> ELSE per[a] \o ForEach(a + 1, b, per)

\* a break or continue escapes the body of a called function
Escapes(src) == src.p \in {7, 8} /\ src.s < src.e
\* the first value of the loop variable above 0, at which program 9 returns
FirstAboveZero(src) == IF src.s > 1 THEN src.s ELSE 1
ReturnsAtTop(src) == src.p = 9 /\ FirstAboveZero(src) < src.e

\* what the loops of AstPrograms(s, e)[p] print when break and continue act
\* on the innermost loop around them and return on the whole call
LoopValues(p, s, e) ==
    CASE p \in {1, 5, 9} -> Ints(s, Min({e, 1}))
      [] p = 2 -> Ints(IF s > 1 THEN s ELSE 1, e)
      [] p = 3 -> ForEach(s, e, [i \in s..(e - 1) |-> <<I64(0), I64(i)>>])
      [] p = 4 -> ForEach(s, e, [i \in s..(e - 1) |-> Ints(1, e) \o <<I64(i)>>])
      [] p = 6 -> IF s >= e THEN <<F64(7)>>
                  ELSE IF e >= 2 THEN <<I64(0), F64(s + 10)>>
                  ELSE <<I64(0), I64(s), F64(7)>>
      [] p \in {7, 8} -> <<>>
      [] p = 10 -> Ints(s, e)
      [] p = 11 -> [k \in 1..Len(Ints(s, e)) |->
                       IF s + k < 3 THEN I64(s + k) ELSE F64(-1)]

\* the whole output: the statement after the loop prints 9 unless the
\* evaluation has ended before
ExpectedOutput(src) ==
    Printed(LoopValues(src.p, src.s, src.e)
            \o (IF Escapes(src) \/ ReturnsAtTop(src) THEN <<>> ELSE <<F64(9)>>))

\* C40: in the tree-walking interpreter a break ends the innermost for-loop
\* around it, also from inside if-expressions, and the statement after that
\* loop runs; a continue goes on with the next value of that loop's
\* variable; a return ends all loops of the current call and gives the call
\* its value; a break or continue that leaves the body of a called function
\* is a panic and does not act on a loop of the caller.
C40_BreakAndContinueActOnInnermostLoop ==
    phase # "source" =>
        /\ log = ExpectedOutput(source)
        /\ phase = (IF Escapes(source) THEN "panic" ELSE "exited")
        /\ ReturnsAtTop(source) =>
               result = [kind |-> "Return", val |-> I64(FirstAboveZero(source))]
        /\ (~Escapes(source) /\ ~ReturnsAtTop(source)) =>
               result = [kind |-> "Continue", val |-> I64(0)]

\* the nested loops with a break in the inner one have run for i = 0 and 1
C40_Witness ==
    /\ source.p = 3 /\ source.s = 0 /\ source.e = 2
    /\ phase = "exited"
    /\ Len(log) = 5
    /\ log[5].args = <<F64(9)>>

====
